---- MODULE Spec2Model ----
(***************************************************************************)
(* octodns-ultra: the UltraProvider adapter (src/octodns_ultra/__init__.py) *)
(* as a state machine.  One adapter instance, used by one thread.  A step   *)
(* is one blocking HTTP exchange together with the code that runs up to the *)
(* next exchange (or up to the return / the raise).  The vendor is the      *)
(* environment: it answers every request with one of the responses below.   *)
(*                                                                          *)
(* Strings that the code takes apart (fqdn, zone name, record name) are     *)
(* sequences of tokens, labels and dots: "www.a." is <<"www",".","a",".">>. *)
(***************************************************************************)
EXTENDS Integers, Sequences, FiniteSets, TLC

VARIABLES
    _sess,           \* self._sess: the default headers of the requests session
    _zones,          \* self._zones: None or the list of zone names
    _zone_records,   \* self._zone_records: the dict zone name -> rrsets
    pc,              \* where the running call is: the request it issues next
    call,            \* the running top-level call, its arguments, the caches on entry
    frame,           \* the locals of the running call (and of the calls nested in it)
    http,            \* the HTTP exchanges of the running call, in order
    ret,             \* how the call ended: the exception raised or the value returned
    vendor,          \* the rrsets the vendor is listing, page by page
    seen,            \* the list the last successful zones / list_zones call returned
    created,         \* the zones that applies have created since that call returned
    fetched          \* zone name -> the list the last zone_records call for the zone
                     \* returned, for the zones no apply was called for since

vars == <<_sess, _zones, _zone_records, pc, call, frame, http, ret, vendor, seen, created, fetched>>

(*************************** bounds of the model ***************************)
MaxZonePages == 2    \* the vendor ends a zone listing after this many pages
MaxRRs == 3          \* the vendor holds at most this many rrsets in a zone
MaxChanges == 2      \* a plan holds at most this many changes

(****************************** constants **********************************)
None == << <<"None">> >>         \* self._zones before the first listing
Absent == <<"absent", 0>>        \* key absent from a request's params / a JSON object
NoZone == <<>>
ZONE_REQUEST_LIMIT == 1000
RRSET_REQUEST_LIMIT == 1000
NO_DATA == 70002                 \* errorCode of "Data not found."

ZoneA == <<"a", ".">>
ZoneB == <<"b", ".">>
ZoneNames == {ZoneA, ZoneB}      \* zones the vendor account may hold
Targets == {ZoneA}               \* zones the caller works on
Token(pageNo) == <<"cursor", pageNo>>   \* the vendor's token for the page after pageNo

RECORDS_TO_TYPE ==
    [l \in {"A (1)", "AAAA (28)", "APEXALIAS (65282)", "CAA (257)", "CNAME (5)",
            "MX (15)", "NS (2)", "PTR (12)", "SRV (33)", "TXT (16)"} |->
        CASE l = "A (1)" -> "A"
          [] l = "AAAA (28)" -> "AAAA"
          [] l = "APEXALIAS (65282)" -> "ALIAS"
          [] l = "CAA (257)" -> "CAA"
          [] l = "CNAME (5)" -> "CNAME"
          [] l = "MX (15)" -> "MX"
          [] l = "NS (2)" -> "NS"
          [] l = "PTR (12)" -> "PTR"
          [] l = "SRV (33)" -> "SRV"
          [] l = "TXT (16)" -> "TXT"]

\* SUPPORTS = set(TYPE_TO_RECORDS.keys()): the types of the table
SUPPORTS == {RECORDS_TO_TYPE[l] : l \in DOMAIN RECORDS_TO_TYPE}

(*********************** dicts, sequences, strings **************************)
\* a Python dict is a function on its keys
EmptyDict == [k \in {} |-> <<>>]
DictSet(d, key, value) ==
    [k \in DOMAIN d \cup {key} |-> IF k = key THEN value ELSE d[k]]
DictPop(d, key) == [k \in DOMAIN d \ {key} |-> d[k]]

Range(s) == {s[k] : k \in 1..Len(s)}

\* all sequences over S of length at most n
SeqsUpTo(S, n) == UNION {[1..k -> S] : k \in 0..n}

\* sequences over S without a repeated element
DistinctSeqs(S) == {s \in SeqsUpTo(S, Cardinality(S)) : Cardinality(Range(s)) = Len(s)}

\* the concatenation of a sequence of sequences
RECURSIVE Concat(_)
Concat(ss) == IF ss = <<>> THEN <<>> ELSE Head(ss) \o Concat(Tail(ss))

\* str.startswith
StartsWith(text, prefix) ==
    /\ Len(prefix) <= Len(text)
    /\ SubSeq(text, 1, Len(prefix)) = prefix

\* mutant: the text is returned whole
_remove_prefix_kept(text, prefix) == text

\* UltraProvider._remove_prefix
_remove_prefix(text, prefix) ==
    IF StartsWith(text, prefix)
    THEN SubSeq(text, Len(prefix) + 1, Len(text))
    ELSE text

(************************ records, changes, rrsets **************************)
\* octodns Record: name relative to the zone ("" at the apex), type, zone
NoRecord == [name |-> <<>>, _type |-> "", zone |-> NoZone]
Rec(n, t, z) == [name |-> n, _type |-> t, zone |-> z]

\* octodns Record.fqdn: "{name}.{zone.name}", the zone name at the apex
Fqdn(record) ==
    IF record.name = <<>> THEN record.zone ELSE record.name \o <<".">> \o record.zone

PlanRecords(z) == {Rec(<<>>, "NS", z), Rec(<<"www">>, "A", z)}

\* octodns Create(new), Update(existing, new), Delete(existing)
Create(new) == [class |-> "Create", existing |-> NoRecord, new |-> new]
Update(existing, new) == [class |-> "Update", existing |-> existing, new |-> new]
Delete(existing) == [class |-> "Delete", existing |-> existing, new |-> NoRecord]

\* octodns Change.record: new, or existing when there is no new
ChangeRecord(change) == IF change.new # NoRecord THEN change.new ELSE change.existing

PlanChanges(z) ==
    {Create(r) : r \in PlanRecords(z)}
        \cup {Update(r, r) : r \in PlanRecords(z)}
        \cup {Delete(r) : r \in PlanRecords(z)}

\* the plans for zone z: a plan holds at most one change per record
Plans(z) ==
    {p \in SeqsUpTo(PlanChanges(z), MaxChanges) :
        \A i, j \in 1..Len(p) : i # j => ChangeRecord(p[i]) # ChangeRecord(p[j])}

\* one rrset of a vendor response
RRSet(owner, rrtype, rdata) ==
    [ownerName |-> owner, rrtype |-> rrtype, rdata |-> rdata,
     ttl |-> 300, profile |-> [context |-> ""]]

\* the @context of the profile of a directional pool
DirPool == "http://schemas.ultradns.com/DirPool.jsonschema"

\* what the vendor may hold in zone z, in the order it lists it
VendorRRSets(z) ==
    << RRSet(z, "SOA (6)", <<"ns1 hostmaster 1">>),
       RRSet(z, "NS (2)", <<"ns1.">>),
       RRSet(<<"www", ".">> \o z, "A (1)", <<"1.1.1.1">>),
       RRSet(<<"www", ".">> \o z, "A (1)", <<"2.2.2.2">>),
       [RRSet(<<"www", ".">> \o z, "A (1)", <<"3.3.3.3">>) EXCEPT !.profile.context = DirPool],
       RRSet(<<"www", ".">> \o z, "HINFO (13)", <<"cpu os">>) >>

\* the sub-lists of s (order kept) with at most n elements
RECURSIVE SubLists(_, _)
SubLists(s, n) ==
    IF s = <<>> \/ n = 0 THEN {<<>>}
    ELSE SubLists(Tail(s), n) \cup {<<Head(s)>> \o t : t \in SubLists(Tail(s), n - 1)}

Snapshots(z) == SubLists(VendorRRSets(z), MaxRRs)

(************************* the vendor's responses ****************************)
\* a response body as _request looks at it: its JSON kind, len() of the decoded
\* value, and the errorCode of the first element of an array (if it has one)
Body(kind, len, hasErrorCode, errorCode) ==
    [kind |-> kind, len |-> len, hasErrorCode |-> hasErrorCode, errorCode |-> errorCode]

NoInfo == [offset |-> 0, returnedCount |-> 0, totalCount |-> 0]

Response(status, body) ==
    [status |-> status, body |-> body, access_token |-> Absent,
     zones |-> <<>>, cursorInfo |-> [next |-> Absent],
     rrSets |-> <<>>, resultInfo |-> NoInfo]

\* a zone object of the /v3/zones payload
ZoneEntry(z) == [properties |-> [name |-> z, type |-> "PRIMARY"]]

\* failures the vendor (or a proxy before it) answers with, to any request
ErrorResponses ==
    { Response(401, Body("object", 2, FALSE, 0)),
      Response(404, Body("array", 1, TRUE, NO_DATA)),
      Response(400, Body("array", 1, TRUE, NO_DATA)),
      Response(400, Body("object", 2, FALSE, 0)),
      Response(500, Body("text", 0, FALSE, 0)) }

\* GET /v3/zones: a page of zones not listed on an earlier page of this listing,
\* with the token of the next page or without; the vendor's last page has none
ZonePages(listed, pageNo) ==
    { [Response(200, Body("object", 4, FALSE, 0)) EXCEPT
          !.zones = [k \in 1..Len(zs) |-> ZoneEntry(zs[k])],
          !.cursorInfo = [next |-> nx]] :
        zs \in DistinctSeqs(ZoneNames \ listed),
        nx \in IF pageNo < MaxZonePages THEN {Token(pageNo), Absent} ELSE {Absent} }

\* GET /v2/zones/{zone}/rrsets?offset=: the rrsets of snap from the requested
\* offset on, as many as the vendor cares to send (at least one while any is left)
RRSetPages(snap, offset) ==
    { [Response(200, Body("object", 4, FALSE, 0)) EXCEPT
          !.rrSets = SubSeq(snap, offset + 1, offset + n),
          !.resultInfo = [offset |-> offset, returnedCount |-> n,
                          totalCount |-> Len(snap)]] :
        n \in IF offset >= Len(snap) THEN {0} ELSE 1..(Len(snap) - offset) }

\* POST /v2/authorization/token: the token, or (a vendor gone wrong) a JSON
\* object without access_token
AccessToken == <<"token", 123>>
TokenResponses ==
    { [Response(200, Body("object", 4, FALSE, 0)) EXCEPT !.access_token = AccessToken],
      Response(200, Body("object", 3, FALSE, 0)) }

\* the answer to a successful POST, PUT or DELETE
WriteResponse(method) ==
    CASE method = "POST" -> Response(201, Body("object", 1, FALSE, 0))
      [] method = "PUT" -> Response(200, Body("object", 1, FALSE, 0))
      [] method = "DELETE" -> Response(204, Body("text", 0, FALSE, 0))

(******************************* Transport **********************************)
\* requests.Response.raise_for_status
raise_for_status(resp) == IF resp.status >= 400 THEN "HTTPError" ELSE ""

\* mutant: the body is decoded before the status is looked at
_request_decodes_first(resp, json_response) ==
    IF json_response /\ resp.body.kind = "text" THEN "JSONDecodeError"
    ELSE IF resp.status = 401 THEN "UltraClientUnauthorized"
    ELSE IF json_response /\ resp.status = 404 /\ resp.body.len = 1
    THEN IF resp.body.kind = "object" THEN "KeyError"
         ELSE IF ~resp.body.hasErrorCode THEN "KeyError"
         ELSE IF resp.body.errorCode = NO_DATA THEN "UltraNoZonesExistException"
         ELSE raise_for_status(resp)
    ELSE raise_for_status(resp)

\* UltraProvider._request: the exception it raises for a response, "" for none
_request(resp, json_response) ==
    IF resp.status = 401 THEN "UltraClientUnauthorized"
    ELSE IF json_response
    THEN IF resp.body.kind = "text" THEN "JSONDecodeError"
         ELSE IF resp.status = 404 /\ resp.body.len = 1
         THEN IF resp.body.kind = "object" THEN "KeyError"
              ELSE IF ~resp.body.hasErrorCode THEN "KeyError"
              ELSE IF resp.body.errorCode = NO_DATA THEN "UltraNoZonesExistException"
              ELSE raise_for_status(resp)
         ELSE raise_for_status(resp)
    ELSE raise_for_status(resp)

\* what UltraProvider._request returns when it does not raise: resp.json() or
\* resp.text
Payload(resp, json_response) ==
    IF json_response THEN [json |-> resp.body] ELSE [text |-> resp.body]

\* one exchange as the log keeps it; change is the position in the change list
\* of the change that issued it (0: none)
Exchange(method, path, cursor, offset, limit, json_response, change, resp) ==
    [method |-> method, path |-> path, cursor |-> cursor, offset |-> offset,
     limit |-> limit, json_response |-> json_response, change |-> change, resp |-> resp,
     raised |-> _request(resp, json_response)]

Seg(word) == <<word>>
\* the path of an rrset of ZoneA, for a request made on its own
PathOfRequest(record_type) ==
    <<Seg("v2"), Seg("zones"), ZoneA, Seg("rrsets"), Seg(record_type), <<"www", ".">> \o ZoneA>>
TokenPath == <<Seg("v2"), Seg("authorization"), Seg("token")>>
ZonesPath == <<Seg("v3"), Seg("zones")>>
ZoneCreatePath == <<Seg("v2"), Seg("zones")>>
RRSetsPath(zone_name) == <<Seg("v2"), Seg("zones"), zone_name, Seg("rrsets")>>
RRSetPath(zone_name, record_type, fqdn) ==
    <<Seg("v2"), Seg("zones"), zone_name, Seg("rrsets"), Seg(record_type), fqdn>>

\* the path half of UltraProvider._gen_data
_gen_data(record) ==
    LET zone_name == _remove_prefix(Fqdn(record), record.name \o <<".">>)
        record_type == IF record._type = "ALIAS" THEN "APEXALIAS" ELSE record._type
    IN  RRSetPath(zone_name, record_type, Fqdn(record))

\* the path _apply_Delete builds
DeletePath(existing) ==
    LET zone_name == _remove_prefix(Fqdn(existing), existing.name \o <<".">>)
        existing_type == IF existing._type = "ALIAS" THEN "APEXALIAS" ELSE existing._type
    IN  RRSetPath(zone_name, existing_type, Fqdn(existing))

(***************************** encoding records ******************************)
\* str(n) and int(s) for the numeric fields of MX, SRV and CAA values: a number
\* is written as its decimal digits, one token each
Digit == <<"0", "1", "2", "3", "4", "5", "6", "7", "8", "9">>

RECURSIVE str(_)
str(n) == IF n < 10 THEN <<Digit[n + 1]>> ELSE str(n \div 10) \o <<Digit[(n % 10) + 1]>>

RECURSIVE int(_)
int(s) ==
    LET value(d) == (CHOOSE k \in 1..10 : Digit[k] = d) - 1
    IN  IF Len(s) = 1 THEN value(s[1])
        ELSE 10 * int(SubSeq(s, 1, Len(s) - 1)) + value(s[Len(s)])

\* v.replace('\;', ';'): from the left, each backslash followed by a semicolon
\* becomes the semicolon
RECURSIVE unescape_semicolons(_)
unescape_semicolons(v) ==
    IF v = <<>> THEN v
    ELSE IF Len(v) >= 2 /\ v[1] = "\\" /\ v[2] = ";"
    THEN <<";">> \o unescape_semicolons(SubSeq(v, 3, Len(v)))
    ELSE <<Head(v)>> \o unescape_semicolons(Tail(v))

RDPool == "http://schemas.ultradns.com/RDPool.jsonschema"

\* mutant: the profile for every number of values
_contents_for_multiple_resource_distribution_profiled(record) ==
    [ttl |-> record.data.ttl, rdata |-> record.data.values,
     profile |-> [context |-> RDPool, order |-> "FIXED", description |-> Fqdn(record)]]

\* UltraProvider._contents_for_multiple_resource_distribution (A, AAAA)
_contents_for_multiple_resource_distribution(record) ==
    IF Len(record.data.values) > 1
    THEN [ttl |-> record.data.ttl, rdata |-> record.data.values,
          profile |-> [context |-> RDPool, order |-> "FIXED", description |-> Fqdn(record)]]
    ELSE [ttl |-> record.data.ttl, rdata |-> record.data.values]

\* UltraProvider._contents_for_multiple (NS, SPF)
_contents_for_multiple(record) == [ttl |-> record.data.ttl, rdata |-> record.data.values]

\* mutant: the values are sent as the record holds them
_contents_for_TXT_verbatim(record) == [ttl |-> record.data.ttl, rdata |-> record.data.values]

\* UltraProvider._contents_for_TXT
_contents_for_TXT(record) ==
    [ttl |-> record.data.ttl,
     rdata |-> [k \in 1..Len(record.data.values) |-> unescape_semicolons(record.data.values[k])]]

\* UltraProvider._contents_for_CNAME (CNAME, PTR, ALIAS)
_contents_for_CNAME(record) == [ttl |-> record.data.ttl, rdata |-> <<record.data.value>>]

\* UltraProvider._contents_for_SRV
_contents_for_SRV(record) ==
    [ttl |-> record.data.ttl,
     rdata |-> [k \in 1..Len(record.data.values) |->
                  LET x == record.data.values[k]
                  IN  str(x.priority) \o <<" ">> \o str(x.weight) \o <<" ">>
                          \o str(x.port) \o <<" ">> \o x.target]]

\* UltraProvider._contents_for_CAA
_contents_for_CAA(record) ==
    [ttl |-> record.data.ttl,
     rdata |-> [k \in 1..Len(record.data.values) |->
                  LET x == record.data.values[k]
                  IN  str(x.flags) \o <<" ">> \o x.tag \o <<" ">> \o x.value]]

\* UltraProvider._contents_for_MX
_contents_for_MX(record) ==
    [ttl |-> record.data.ttl,
     rdata |-> [k \in 1..Len(record.data.values) |->
                  LET x == record.data.values[k]
                  IN  str(x.preference) \o <<" ">> \o x.exchange]]

\* getattr(self, f'_contents_for_{record._type}')(record), the payload half of
\* UltraProvider._gen_data
_contents_for(record) ==
    CASE record._type \in {"A", "AAAA"} -> _contents_for_multiple_resource_distribution(record)
      [] record._type \in {"NS", "SPF"} -> _contents_for_multiple(record)
      [] record._type = "TXT" -> _contents_for_TXT(record)
      [] record._type \in {"CNAME", "PTR", "ALIAS"} -> _contents_for_CNAME(record)
      [] record._type = "SRV" -> _contents_for_SRV(record)
      [] record._type = "CAA" -> _contents_for_CAA(record)
      [] record._type = "MX" -> _contents_for_MX(record)

(***************************** decoding rrsets *******************************)
\* A string the code takes apart is a sequence of tokens: characters (";", "\\",
\* "\"", " "), decimal digits, and runs of other characters ("mail.a.").

\* str.split(): the maximal runs of tokens other than " "
RECURSIVE split_from(_, _, _, _)
split_from(x, i, word, words) ==
    LET closed == IF word = <<>> THEN words ELSE Append(words, word)
    IN  IF i > Len(x) THEN closed
        ELSE IF x[i] = " " THEN split_from(x, i + 1, <<>>, closed)
        ELSE split_from(x, i + 1, Append(word, x[i]), words)

split(x) == split_from(x, 1, <<>>, <<>>)

\* str.strip('"')
RECURSIVE strip_quotes(_)
strip_quotes(x) ==
    IF x = <<>> THEN x
    ELSE IF Head(x) = "\"" THEN strip_quotes(Tail(x))
    ELSE IF x[Len(x)] = "\"" THEN strip_quotes(SubSeq(x, 1, Len(x) - 1))
    ELSE x

\* mutant: a semicolon that already follows a backslash is left as it is
escape_semicolons_once(r) ==
    Concat([k \in 1..Len(r) |->
              IF r[k] = ";" /\ ~(k > 1 /\ r[k - 1] = "\\") THEN <<"\\", ";">> ELSE <<r[k]>>])

\* r.replace(';', '\;')
escape_semicolons(r) ==
    Concat([k \in 1..Len(r) |-> IF r[k] = ";" THEN <<"\\", ";">> ELSE <<r[k]>>])

\* a decoder that raised (x.split()[k] beyond the last word)
DataError(exc) == [exc |-> exc]

\* every rdata string has at least n words
HasWords(rdata, n) == \A k \in 1..Len(rdata) : Len(split(rdata[k])) >= n

\* UltraProvider._data_for_multiple (A, SPF, NS) and _data_for_AAAA
_data_for_multiple(_type, records) ==
    [type |-> _type, ttl |-> records.ttl, values |-> records.rdata]

\* UltraProvider._data_for_TXT
_data_for_TXT(_type, records) ==
    [type |-> _type, ttl |-> records.ttl,
     values |-> [k \in 1..Len(records.rdata) |-> escape_semicolons(records.rdata[k])]]

\* UltraProvider._data_for_single (PTR, CNAME, ALIAS)
_data_for_single(_type, record) ==
    IF record.rdata = <<>> THEN DataError("IndexError")
    ELSE [type |-> _type, ttl |-> record.ttl, value |-> record.rdata[1]]

\* UltraProvider._data_for_CAA
_data_for_CAA(_type, records) ==
    IF ~HasWords(records.rdata, 3) THEN DataError("IndexError")
    ELSE [type |-> _type, ttl |-> records.ttl,
          values |-> [k \in 1..Len(records.rdata) |->
                        LET x == split(records.rdata[k])
                        IN  [flags |-> x[1], tag |-> x[2], value |-> strip_quotes(x[3])]]]

\* UltraProvider._data_for_MX
_data_for_MX(_type, records) ==
    IF ~HasWords(records.rdata, 2) THEN DataError("IndexError")
    ELSE [type |-> _type, ttl |-> records.ttl,
          values |-> [k \in 1..Len(records.rdata) |->
                        LET x == split(records.rdata[k])
                        IN  [preference |-> x[1], exchange |-> x[2]]]]

\* UltraProvider._data_for_SRV
_data_for_SRV(_type, records) ==
    IF ~HasWords(records.rdata, 4) THEN DataError("IndexError")
    ELSE [type |-> _type, ttl |-> records.ttl,
          values |-> [k \in 1..Len(records.rdata) |->
                        LET x == split(records.rdata[k])
                        IN  [priority |-> x[1], weight |-> x[2],
                             port |-> x[3], target |-> x[4]]]]

\* getattr(self, f'_data_for_{_type}')(_type, records)
_data_for(_type, records) ==
    CASE _type \in {"A", "AAAA", "SPF", "NS"} -> _data_for_multiple(_type, records)
      [] _type = "TXT" -> _data_for_TXT(_type, records)
      [] _type \in {"PTR", "CNAME", "ALIAS"} -> _data_for_single(_type, records)
      [] _type = "CAA" -> _data_for_CAA(_type, records)
      [] _type = "MX" -> _data_for_MX(_type, records)
      [] _type = "SRV" -> _data_for_SRV(_type, records)

(************************** the code between requests ***********************)
\* The configuration a piece of code leaves behind: where the call stands next,
\* what it returned or raised, the two caches and the locals.
St(p, r, zs, zr, fr) ==
    [pc |-> p, ret |-> r, zones |-> zs, zone_records |-> zr, frame |-> fr]

\* ret: the exception and the code that raised it, or the value returned
Running == [exc |-> "", at |-> "", value |-> <<>>]
Returned(value) == [exc |-> "", at |-> "", value |-> value]
Raised(exc, at) == [exc |-> exc, at |-> at, value |-> <<>>]

NoCall == [op |-> "none", zone |-> NoZone, plan |-> <<>>,
           zones0 |-> None, records0 |-> <<>>]

NoFrame ==
    [zones |-> <<>>, cursor |-> Absent,
     zone |-> NoZone, records |-> <<>>, offset |-> 0,
     changes |-> <<>>, idx |-> 0, lookup |-> <<>>, scan |-> 0]

\* the headers of the session __init__ creates
NewSession == [headers |-> [UserAgent |-> "octodns-ultra", Authorization |-> Absent]]

\* UltraProvider._login after the response to the token request: the exception,
\* or the session with the Authorization header
_login(resp, sess) ==
    LET exc == _request(resp, TRUE)
    IN  IF exc # "" THEN [ret |-> Raised(exc, "_request"), sess |-> sess]
        ELSE IF resp.access_token = Absent
        THEN [ret |-> Raised("KeyError", "_login"), sess |-> sess]
        ELSE [ret |-> Returned(<<>>),
              sess |-> [sess EXCEPT !.headers.Authorization = <<"Bearer", resp.access_token>>]]

\* mutant: the rewrite is left out
_force_root_ns_update_skipped(changes) == changes

\* mutant: the rewritten changes are moved to the front of the list
_force_root_ns_update_front(changes) ==
    LET root(i) == /\ ChangeRecord(changes[i]).name = <<>>
                   /\ ChangeRecord(changes[i])._type = "NS"
                   /\ changes[i].class = "Create"
        pick(keep(_)) ==
            Concat([i \in 1..Len(changes) |-> IF keep(i) THEN <<i>> ELSE <<>>])
        first == pick(root)
        rest == pick(LAMBDA i : ~root(i))
    IN  [k \in 1..Len(first) |-> Update(NoRecord, ChangeRecord(changes[first[k]]))]
            \o [k \in 1..Len(rest) |-> changes[rest[k]]]

\* UltraProvider._force_root_ns_update
_force_root_ns_update(changes) ==
    [i \in 1..Len(changes) |->
        IF /\ ChangeRecord(changes[i]).name = <<>>
           /\ ChangeRecord(changes[i])._type = "NS"
           /\ changes[i].class = "Create"
        THEN Update(NoRecord, ChangeRecord(changes[i]))
        ELSE changes[i]]

RECURSIVE _apply_loop(_, _, _, _)
RECURSIVE _apply_Delete(_, _, _, _, _)

\* the for loop of UltraProvider._apply_Delete from position k of the list that
\* zone_records returned (fr.lookup), up to the DELETE of the next match
_apply_Delete(zs, zr, fr, c, k) ==
    IF k > Len(fr.lookup)
    THEN _apply_loop(zs, zr, [fr EXCEPT !.idx = fr.idx + 1, !.scan = 0], c)
    ELSE LET record == fr.lookup[k]
             existing == fr.changes[fr.idx].existing
         IN  IF record.rrtype = "SOA (6)"
             THEN _apply_Delete(zs, zr, fr, c, k + 1)
             ELSE IF Fqdn(existing) # record.ownerName
             THEN _apply_Delete(zs, zr, fr, c, k + 1)
             ELSE IF record.rrtype \notin DOMAIN RECORDS_TO_TYPE
             THEN St("done", Raised("KeyError", "_apply_Delete"), zs, zr, [fr EXCEPT !.scan = k])
             ELSE IF existing._type = RECORDS_TO_TYPE[record.rrtype]
             THEN St("delete", Running, zs, zr, [fr EXCEPT !.scan = k])
             ELSE _apply_Delete(zs, zr, fr, c, k + 1)

\* octodns Zone.hostname_from_fqdn for an owner name of the zone
hostname_from_fqdn(z, fqdn) ==
    IF fqdn = z THEN <<>> ELSE SubSeq(fqdn, 1, Len(fqdn) - Len(z) - 1)

\* octodns Record.new(zone, name, data): the record populate adds to the zone;
\* the value classes of MX, SRV and CAA turn their numeric fields into ints
Record_new(z, name, data) ==
    [name |-> name, _type |-> data.type, zone |-> z,
     data |-> CASE data.type = "MX" ->
                     [data EXCEPT !.values = [k \in 1..Len(data.values) |->
                         [data.values[k] EXCEPT !.preference = int(data.values[k].preference)]]]
                [] data.type = "SRV" ->
                     [data EXCEPT !.values = [k \in 1..Len(data.values) |->
                         [data.values[k] EXCEPT !.priority = int(data.values[k].priority),
                                                !.weight = int(data.values[k].weight),
                                                !.port = int(data.values[k].port)]]]
                [] data.type = "CAA" ->
                     [data EXCEPT !.values = [k \in 1..Len(data.values) |->
                         [data.values[k] EXCEPT !.flags = int(data.values[k].flags)]]]
                [] OTHER -> data]

\* UltraProvider._record_for: the record, or the exception of the decoder
_record_for(z, name, _type, records) ==
    IF "exc" \in DOMAIN _data_for(_type, records) THEN _data_for(_type, records)
    ELSE Record_new(z, name, _data_for(_type, records))

\* mutant: the first rrset of a name and type stays
RECURSIVE populate_values_first_wins(_, _, _)
populate_values_first_wins(z, records, k) ==
    IF k = 0 THEN EmptyDict
    ELSE LET values == populate_values_first_wins(z, records, k - 1)
             record == records[k]
             name == hostname_from_fqdn(z, record.ownerName)
         IN  IF record.rrtype = "SOA (6)" THEN values
             ELSE IF record.rrtype = "A (1)" /\ record.profile.context = DirPool THEN values
             ELSE IF record.rrtype \notin DOMAIN RECORDS_TO_TYPE THEN values
             ELSE IF <<name, RECORDS_TO_TYPE[record.rrtype]>> \in DOMAIN values THEN values
             ELSE DictSet(values, <<name, RECORDS_TO_TYPE[record.rrtype]>>, record)

\* mutant: the rrsets of directional pools are taken like any other
RECURSIVE populate_values_with_pools(_, _, _)
populate_values_with_pools(z, records, k) ==
    IF k = 0 THEN EmptyDict
    ELSE LET values == populate_values_with_pools(z, records, k - 1)
             record == records[k]
             name == hostname_from_fqdn(z, record.ownerName)
         IN  IF record.rrtype = "SOA (6)" THEN values
             ELSE IF record.rrtype \notin DOMAIN RECORDS_TO_TYPE THEN values
             ELSE DictSet(values, <<name, RECORDS_TO_TYPE[record.rrtype]>>, record)

\* the dict values[name][_type] of populate after the first k rrsets
RECURSIVE populate_values(_, _, _)
populate_values(z, records, k) ==
    IF k = 0 THEN EmptyDict
    ELSE LET values == populate_values(z, records, k - 1)
             record == records[k]
             name == hostname_from_fqdn(z, record.ownerName)
         IN  IF record.rrtype = "SOA (6)" THEN values
             ELSE IF record.rrtype = "A (1)" /\ record.profile.context = DirPool THEN values
             ELSE IF record.rrtype \notin DOMAIN RECORDS_TO_TYPE THEN values
             ELSE DictSet(values, <<name, RECORDS_TO_TYPE[record.rrtype]>>, record)

\* UltraProvider.populate once zone_records has returned: exists, and the
\* records added to the zone
populate(z, records) ==
    LET values == populate_values(z, records, Len(records))
    IN  [exists |-> records # <<>>,
         records |-> IF records = <<>> THEN {}
                     ELSE {_record_for(z, key[1], key[2], values[key]) : key \in DOMAIN values}]

\* where the caller of zone_records goes on with the list it got
zone_records_return(zs, zr, fr, c, value) ==
    CASE c.op = "apply" -> _apply_Delete(zs, zr, [fr EXCEPT !.lookup = value], c, 1)
      [] c.op = "populate" ->
            St("done", Returned(populate(c.zone, value)), zs, zr, [fr EXCEPT !.lookup = value])
      [] OTHER -> St("done", Returned(value), zs, zr, fr)

\* mutant: the rrsets are requested without a look at the zone list
zone_records_fetch_unlisted(zs, zr, fr, c, z) ==
    St("zone_records", Running, zs, zr,
       [fr EXCEPT !.zone = z, !.records = <<>>, !.offset = 0])

\* UltraProvider.zone_records from the zone list check to the first request
zone_records_fetch(zs, zr, fr, c, z) ==
    IF z \notin Range(zs)
    THEN zone_records_return(zs, zr, fr, c, <<>>)
    ELSE St("zone_records", Running, zs, zr,
            [fr EXCEPT !.zone = z, !.records = <<>>, !.offset = 0])

\* the zones property up to its first request
zones_enter(zs, zr, fr) ==
    St("zones", Running, zs, zr, [fr EXCEPT !.zones = <<>>, !.cursor = Absent])

\* mutant: the entry of the zone in self._zone_records is not looked at
zone_records_uncached(zs, zr, fr, c, z) ==
    IF zs = None THEN zones_enter(zs, zr, fr)
    ELSE zone_records_fetch(zs, zr, fr, c, z)

\* UltraProvider.zone_records up to its first request
zone_records(zs, zr, fr, c, z) ==
    IF z \in DOMAIN zr THEN zone_records_return(zs, zr, fr, c, zr[z])
    ELSE IF zs = None THEN zones_enter(zs, zr, fr)
    ELSE zone_records_fetch(zs, zr, fr, c, z)

\* mutant: the entry of the zone stays in the cache
_apply_loop_keeps_cache(zs, zr, fr, c) ==
    IF fr.idx > Len(fr.changes)
    THEN St("done", Returned(<<>>), zs, zr, fr)
    ELSE IF fr.changes[fr.idx].class \in {"Create", "Update"}
    THEN St("changes", Running, zs, zr, fr)
    ELSE zone_records(zs, zr, fr, c, fr.changes[fr.idx].existing.zone)

\* the for loop of UltraProvider._apply at position fr.idx, and the cache pop
\* after it
_apply_loop(zs, zr, fr, c) ==
    IF fr.idx > Len(fr.changes)
    THEN St("done", Returned(<<>>), zs, DictPop(zr, c.zone), fr)
    ELSE IF fr.changes[fr.idx].class \in {"Create", "Update"}
    THEN St("changes", Running, zs, zr, fr)
    ELSE zone_records(zs, zr, fr, c, fr.changes[fr.idx].existing.zone)

\* mutant: the changes are rewritten for a zone of the list as well
_apply_always_rewrites(zs, zr, fr, c) ==
    IF c.zone \notin Range(zs)
    THEN St("create_zone", Running, zs, zr, fr)
    ELSE _apply_loop(zs, zr, [fr EXCEPT !.changes = _force_root_ns_update(c.plan), !.idx = 1], c)

\* mutant: the zone is never created
_apply_without_create(zs, zr, fr, c) ==
    _apply_loop(zs, zr, [fr EXCEPT !.changes = c.plan, !.idx = 1], c)

\* UltraProvider._apply once self.zones is there
_apply(zs, zr, fr, c) ==
    IF c.zone \notin Range(zs)
    THEN St("create_zone", Running, zs, zr, fr)
    ELSE _apply_loop(zs, zr, [fr EXCEPT !.changes = c.plan, !.idx = 1], c)

\* mutant: the name of the created zone is not put on the list
_apply_created_unlisted(zs, zr, fr, c) ==
    _apply_loop(zs, DictSet(zr, c.zone, <<>>),
                [fr EXCEPT !.changes = _force_root_ns_update(c.plan), !.idx = 1], c)

\* UltraProvider._apply after the zone creation request has succeeded
_apply_created(zs, zr, fr, c) ==
    _apply_loop(Append(zs, c.zone), DictSet(zr, c.zone, <<>>),
                [fr EXCEPT !.changes = _force_root_ns_update(c.plan), !.idx = 1], c)

\* where the code that read self.zones goes on
zones_return(zs, zr, fr, c) ==
    CASE c.op \in {"zones", "list_zones"} -> St("done", Returned(zs), zs, zr, fr)
      [] c.op \in {"zone_records", "populate"} -> zone_records_fetch(zs, zr, fr, c, c.zone)
      [] c.op = "apply" -> _apply(zs, zr, fr, c)

\* mutant: the list is fetched on every use, cached or not
zones_uncached(zs, zr, fr, c) == zones_enter(zs, zr, fr)

\* the zones property
zones(zs, zr, fr, c) ==
    IF zs = None THEN zones_enter(zs, zr, fr) ELSE zones_return(zs, zr, fr, c)

\* mutant: a failed page leaves the names of the pages before it in the cache
zones_page_keeps_partial(resp, zs, zr, fr, c) ==
    LET exc == _request(resp, TRUE)
        more == fr.zones \o resp.zones
        names(l) == [k \in 1..Len(l) |-> l[k].properties.name]
    IN  IF exc = "UltraNoZonesExistException"
        THEN zones_return(names(fr.zones), zr, fr, c)
        ELSE IF exc # "" THEN St("done", Raised(exc, "_request"), names(fr.zones), zr, fr)
        ELSE IF resp.cursorInfo.next # Absent
        THEN St("zones", Running, zs, zr,
                [fr EXCEPT !.zones = more, !.cursor = resp.cursorInfo.next])
        ELSE zones_return(names(more), zr, [fr EXCEPT !.zones = more], c)

\* mutant: the token of the page is not passed on to the next request
zones_page_same_cursor(resp, zs, zr, fr, c) ==
    LET exc == _request(resp, TRUE)
        more == fr.zones \o resp.zones
        names(l) == [k \in 1..Len(l) |-> l[k].properties.name]
    IN  IF exc = "UltraNoZonesExistException"
        THEN zones_return(names(fr.zones), zr, fr, c)
        ELSE IF exc # "" THEN St("done", Raised(exc, "_request"), zs, zr, fr)
        ELSE IF resp.cursorInfo.next # Absent
        THEN St("zones", Running, zs, zr, [fr EXCEPT !.zones = more])
        ELSE zones_return(names(more), zr, [fr EXCEPT !.zones = more], c)

\* the zones property after a response to GET /v3/zones
zones_page(resp, zs, zr, fr, c) ==
    LET exc == _request(resp, TRUE)
        more == fr.zones \o resp.zones
        names(l) == [k \in 1..Len(l) |-> l[k].properties.name]
    IN  IF exc = "UltraNoZonesExistException"
        THEN zones_return(names(fr.zones), zr, fr, c)
        ELSE IF exc # "" THEN St("done", Raised(exc, "_request"), zs, zr, fr)
        ELSE IF resp.cursorInfo.next # Absent
        THEN St("zones", Running, zs, zr,
                [fr EXCEPT !.zones = more, !.cursor = resp.cursorInfo.next])
        ELSE zones_return(names(more), zr, [fr EXCEPT !.zones = more], c)

\* mutant: a page that ends at totalCount is not taken for the last one
zone_records_page_never_last(resp, zs, zr, fr, c) ==
    LET exc == _request(resp, TRUE)
        records == fr.records \o resp.rrSets
        info == resp.resultInfo
    IN  IF exc # "" THEN St("done", Raised(exc, "_request"), zs, zr, fr)
        ELSE IF info.offset + info.returnedCount <= info.totalCount
        THEN St("zone_records", Running, zs, zr,
                [fr EXCEPT !.records = records,
                           !.offset = fr.offset + info.returnedCount])
        ELSE zone_records_return(zs, DictSet(zr, fr.zone, records),
                                 [fr EXCEPT !.records = records], c, records)

\* mutant: the offset advances by the limit of the request, not by the number
\* of rrsets the page held
zone_records_page_by_limit(resp, zs, zr, fr, c) ==
    LET exc == _request(resp, TRUE)
        records == fr.records \o resp.rrSets
        info == resp.resultInfo
    IN  IF exc # "" THEN St("done", Raised(exc, "_request"), zs, zr, fr)
        ELSE IF info.offset + info.returnedCount < info.totalCount
        THEN St("zone_records", Running, zs, zr,
                [fr EXCEPT !.records = records,
                           !.offset = fr.offset + RRSET_REQUEST_LIMIT])
        ELSE zone_records_return(zs, DictSet(zr, fr.zone, records),
                                 [fr EXCEPT !.records = records], c, records)

\* UltraProvider.zone_records after a response to GET .../rrsets
zone_records_page(resp, zs, zr, fr, c) ==
    LET exc == _request(resp, TRUE)
        records == fr.records \o resp.rrSets
        info == resp.resultInfo
    IN  IF exc # "" THEN St("done", Raised(exc, "_request"), zs, zr, fr)
        ELSE IF info.offset + info.returnedCount < info.totalCount
        THEN St("zone_records", Running, zs, zr,
                [fr EXCEPT !.records = records,
                           !.offset = fr.offset + info.returnedCount])
        ELSE zone_records_return(zs, DictSet(zr, fr.zone, records),
                                 [fr EXCEPT !.records = records], c, records)

(********************************* actions **********************************)
Becomes(st) ==
    /\ pc' = st.pc
    /\ ret' = st.ret
    /\ _zones' = st.zones
    /\ _zone_records' = st.zone_records
    /\ frame' = st.frame

\* UltraProvider.__init__ up to the token request of _login (the two caches are
\* set after the login; nothing can look at them before)
Init ==
    /\ _sess = NewSession
    /\ _zones = None
    /\ _zone_records = EmptyDict
    /\ pc = "_login"
    /\ call = [NoCall EXCEPT !.op = "__init__"]
    /\ frame = NoFrame
    /\ http = <<>>
    /\ ret = Running
    /\ vendor = <<>>
    /\ seen = None
    /\ created = <<>>
    /\ fetched = EmptyDict

Enter(op, z, plan) ==
    [op |-> op, zone |-> z, plan |-> plan,
     zones0 |-> _zones,
     records0 |-> IF z \in DOMAIN _zone_records THEN <<_zone_records[z]>> ELSE <<>>]

\* POST /v2/authorization/token and the rest of __init__
Login ==
    /\ pc = "_login"
    /\ \E resp \in ErrorResponses \cup TokenResponses :
          /\ http' = Append(http, Exchange("POST", TokenPath, Absent, 0, 0, TRUE, 0, resp))
          /\ _sess' = _login(resp, _sess).sess
          /\ Becomes(IF _login(resp, _sess).ret.exc # ""
                     THEN St("done", _login(resp, _sess).ret, _zones, _zone_records, frame)
                     ELSE St("done", Returned(<<>>), None, EmptyDict, frame))
    /\ UNCHANGED <<call, vendor, seen, created, fetched>>

\* the caller reads provider.zones, or calls provider.list_zones()
CallZones(op) ==
    /\ pc = "idle"
    /\ call' = Enter(op, NoZone, <<>>)
    /\ http' = <<>>
    /\ Becomes(zones(_zones, _zone_records, NoFrame, call'))
    /\ UNCHANGED <<_sess, vendor, seen, created, fetched>>

\* the caller calls provider.zone_records(zone)
CallZoneRecords(z) ==
    /\ pc = "idle"
    /\ call' = Enter("zone_records", z, <<>>)
    /\ http' = <<>>
    /\ Becomes(zone_records(_zones, _zone_records, NoFrame, call', z))
    /\ UNCHANGED <<_sess, vendor, seen, created, fetched>>

\* the caller calls provider.populate(zone)
CallPopulate(z) ==
    /\ pc = "idle"
    /\ call' = Enter("populate", z, <<>>)
    /\ http' = <<>>
    /\ Becomes(zone_records(_zones, _zone_records, NoFrame, call', z))
    /\ UNCHANGED <<_sess, vendor, seen, created, fetched>>

\* the caller calls provider._apply(plan), plan.desired.name = z
CallApply(z, plan) ==
    /\ pc = "idle"
    /\ call' = Enter("apply", z, plan)
    /\ http' = <<>>
    /\ Becomes(zones(_zones, _zone_records, NoFrame, call'))
    /\ fetched' = DictPop(fetched, z)
    /\ UNCHANGED <<_sess, vendor, seen, created>>

\* GET /v3/zones and the code after it
ZonesGet ==
    /\ pc = "zones"
    /\ \E resp \in ErrorResponses
                     \cup ZonePages({e.properties.name : e \in Range(frame.zones)},
                                    Len(http) + 1) :
          /\ http' = Append(http, Exchange("GET", ZonesPath, frame.cursor, 0,
                                           ZONE_REQUEST_LIMIT, TRUE, 0, resp))
          /\ Becomes(zones_page(resp, _zones, _zone_records, frame, call))
    /\ UNCHANGED <<_sess, call, vendor, seen, created, fetched>>

\* GET /v2/zones/{zone}/rrsets and the code after it; on the first page the
\* vendor fixes what the zone holds for the listing
RRSetsGet ==
    /\ pc = "zone_records"
    /\ \E snap \in IF frame.offset = 0 THEN Snapshots(frame.zone) ELSE {vendor} :
          /\ vendor' = snap
          /\ \E resp \in ErrorResponses \cup RRSetPages(snap, frame.offset) :
                /\ http' = Append(http, Exchange("GET", RRSetsPath(frame.zone), Absent,
                                                 frame.offset, RRSET_REQUEST_LIMIT, TRUE,
                                                 frame.idx, resp))
                /\ Becomes(zone_records_page(resp, _zones, _zone_records, frame, call))
    /\ UNCHANGED <<_sess, call, seen, created, fetched>>

\* mutant: the name is put on the list before the answer is looked at
CreateZone_lists_first ==
    /\ pc = "create_zone"
    /\ \E resp \in ErrorResponses \cup {WriteResponse("POST")} :
          /\ http' = Append(http, Exchange("POST", ZoneCreatePath, Absent, 0, 0,
                                           TRUE, 0, resp))
          /\ Becomes(IF _request(resp, TRUE) # ""
                     THEN St("done", Raised(_request(resp, TRUE), "_request"),
                             Append(_zones, call.zone), _zone_records, frame)
                     ELSE _apply_created(_zones, _zone_records, frame, call))
          /\ created' = IF _request(resp, TRUE) # "" THEN created
                         ELSE Append(created, call.zone)
    /\ UNCHANGED <<_sess, call, vendor, seen, fetched>>

\* POST /v2/zones and the code after it
CreateZone ==
    /\ pc = "create_zone"
    /\ \E resp \in ErrorResponses \cup {WriteResponse("POST")} :
          /\ http' = Append(http, Exchange("POST", ZoneCreatePath, Absent, 0, 0,
                                           TRUE, 0, resp))
          /\ Becomes(IF _request(resp, TRUE) # ""
                     THEN St("done", Raised(_request(resp, TRUE), "_request"), _zones, _zone_records, frame)
                     ELSE _apply_created(_zones, _zone_records, frame, call))
          /\ created' = IF _request(resp, TRUE) # "" THEN created
                         ELSE Append(created, call.zone)
    /\ UNCHANGED <<_sess, call, vendor, seen, fetched>>

\* mutant: a failed POST or PUT is logged and the loop goes on
ApplyChange_goes_on ==
    /\ pc = "changes"
    /\ LET change == frame.changes[frame.idx]
           method == IF change.class = "Create" THEN "POST" ELSE "PUT"
       IN  \E resp \in ErrorResponses \cup {WriteResponse(method)} :
              /\ http' = Append(http, Exchange(method, _gen_data(change.new), Absent, 0, 0,
                                               TRUE, frame.idx, resp))
              /\ Becomes(_apply_loop(_zones, _zone_records,
                                     [frame EXCEPT !.idx = frame.idx + 1], call))
    /\ UNCHANGED <<_sess, call, vendor, seen, created, fetched>>

\* UltraProvider._apply_Create / _apply_Update for the change at frame.idx: POST
\* or PUT to the record's path, and the code after it
ApplyChange ==
    /\ pc = "changes"
    /\ LET change == frame.changes[frame.idx]
           method == IF change.class = "Create" THEN "POST" ELSE "PUT"
       IN  \E resp \in ErrorResponses \cup {WriteResponse(method)} :
              /\ http' = Append(http, Exchange(method, _gen_data(change.new), Absent, 0, 0,
                                               TRUE, frame.idx, resp))
              /\ Becomes(IF _request(resp, TRUE) # ""
                         THEN St("done", Raised(_request(resp, TRUE), "_request"),
                                 _zones, _zone_records, frame)
                         ELSE _apply_loop(_zones, _zone_records,
                                          [frame EXCEPT !.idx = frame.idx + 1], call))
    /\ UNCHANGED <<_sess, call, vendor, seen, created, fetched>>

\* UltraProvider._apply_Delete: DELETE for the matching rrset at frame.scan, and
\* the rest of the loop
ApplyDelete ==
    /\ pc = "delete"
    /\ LET existing == frame.changes[frame.idx].existing
       IN  \E resp \in ErrorResponses \cup {WriteResponse("DELETE")} :
              /\ http' = Append(http, Exchange("DELETE", DeletePath(existing), Absent, 0, 0,
                                               FALSE, frame.idx, resp))
              /\ Becomes(IF _request(resp, FALSE) # ""
                         THEN St("done", Raised(_request(resp, FALSE), "_request"),
                                 _zones, _zone_records, frame)
                         ELSE _apply_Delete(_zones, _zone_records, frame, call,
                                            frame.scan + 1))
    /\ UNCHANGED <<_sess, call, vendor, seen, created, fetched>>

\* mutant: a call that ended with Unauthorized sends the adapter back to the
\* token request (a token refresh)
Return_with_refresh ==
    /\ pc = "done"
    /\ ~(call.op = "__init__" /\ ret.exc # "")
    /\ pc' = IF ret.exc = "UltraClientUnauthorized" THEN "_login" ELSE "idle"
    /\ call' = NoCall
    /\ frame' = NoFrame
    /\ http' = <<>>
    /\ ret' = Running
    /\ vendor' = <<>>
    /\ UNCHANGED <<_sess, _zones, _zone_records, seen, created, fetched>>

\* the call is over: the caller has the value or the exception (and no adapter
\* when __init__ raised)
Return ==
    /\ pc = "done"
    /\ ~(call.op = "__init__" /\ ret.exc # "")
    /\ pc' = "idle"
    /\ call' = NoCall
    /\ frame' = NoFrame
    /\ http' = <<>>
    /\ ret' = Running
    /\ vendor' = <<>>
    /\ seen' = IF call.op \in {"zones", "list_zones"} /\ ret.exc = "" THEN ret.value ELSE seen
    /\ created' = IF call.op \in {"zones", "list_zones"} /\ ret.exc = "" THEN <<>> ELSE created
    /\ fetched' = CASE call.op = "zone_records" /\ ret.exc = "" ->
                            DictSet(fetched, call.zone, ret.value)
                     [] call.op = "populate" /\ ret.exc = "" ->
                            DictSet(fetched, call.zone, frame.lookup)
                     [] OTHER -> fetched
    /\ UNCHANGED <<_sess, _zones, _zone_records>>

Next ==
    \/ Login
    \/ \E op \in {"zones", "list_zones"} : CallZones(op)
    \/ \E z \in Targets : CallZoneRecords(z)
    \/ \E z \in Targets : CallPopulate(z)
    \/ \E z \in Targets : \E plan \in Plans(z) : CallApply(z, plan)
    \/ ZonesGet
    \/ RRSetsGet
    \/ CreateZone
    \/ ApplyChange
    \/ ApplyDelete
    \/ Return

Spec == Init /\ [][Next]_vars

(***************************************************************************)
(* The transport alone: one call of _request (through _get, _post, _put,    *)
(* _delete, or the _post of _login) for every response of a bounded set of  *)
(* statuses and body shapes, with and without a JSON response expected.     *)
(***************************************************************************)
Statuses == {200, 201, 204, 302, 400, 401, 403, 404, 500, 503}

\* JSON objects with 0 to 2 keys, JSON arrays of 0 to 2 objects whose first has
\* errorCode 70002, another errorCode or none, and text that is not JSON
Bodies ==
    {Body("object", n, FALSE, 0) : n \in 0..2}
        \cup {Body("array", 0, FALSE, 0), Body("text", 0, FALSE, 0)}
        \cup {Body("array", n, TRUE, code) : n \in 1..2, code \in {NO_DATA, 60001}}
        \cup {Body("array", n, FALSE, 0) : n \in 1..2}

Responses ==
    {Response(status, body) : status \in Statuses, body \in Bodies}
        \cup {[Response(200, Body("object", 4, FALSE, 0)) EXCEPT !.access_token = AccessToken]}

\* the callers of _request and what they pass for json_response
Callers ==
    {[op |-> "_login", method |-> "POST", path |-> TokenPath, json_response |-> TRUE],
     [op |-> "_get", method |-> "GET", path |-> ZonesPath, json_response |-> TRUE],
     [op |-> "_post", method |-> "POST", path |-> ZoneCreatePath, json_response |-> TRUE],
     [op |-> "_put", method |-> "PUT", path |-> PathOfRequest("A"), json_response |-> TRUE],
     [op |-> "_delete", method |-> "DELETE", path |-> PathOfRequest("A"), json_response |-> FALSE],
     [op |-> "_delete", method |-> "DELETE", path |-> PathOfRequest("A"), json_response |-> TRUE]}

RequestInit ==
    /\ _sess = NewSession
    /\ _zones = None
    /\ _zone_records = EmptyDict
    /\ pc = "_request"
    /\ \E caller \in Callers : \E resp \in Responses :
          call = caller @@ [resp |-> resp]
    /\ frame = NoFrame
    /\ http = <<>>
    /\ ret = Running
    /\ vendor = <<>>
    /\ seen = None
    /\ created = <<>>
    /\ fetched = EmptyDict

\* _get, _post, _put, _delete: the response arrives and _request returns or raises
Request ==
    /\ pc = "_request" /\ call.op # "_login"
    /\ http' = <<Exchange(call.method, call.path, Absent, 0, 0, call.json_response, 0, call.resp)>>
    /\ ret' = IF _request(call.resp, call.json_response) # ""
              THEN Raised(_request(call.resp, call.json_response), "_request")
              ELSE Returned(Payload(call.resp, call.json_response))
    /\ pc' = "done"
    /\ UNCHANGED <<_sess, _zones, _zone_records, call, frame, vendor, seen, created, fetched>>

\* the _post of _login: the response arrives, and _login installs the header
\* or __init__ raises
LoginRequest ==
    /\ pc = "_request" /\ call.op = "_login"
    /\ http' = <<Exchange(call.method, call.path, Absent, 0, 0, call.json_response, 0, call.resp)>>
    /\ ret' = _login(call.resp, _sess).ret
    /\ _sess' = _login(call.resp, _sess).sess
    /\ pc' = "done"
    /\ UNCHANGED <<_zones, _zone_records, call, frame, vendor, seen, created, fetched>>

RequestNext == Request \/ LoginRequest

RequestSpec == RequestInit /\ [][RequestNext]_vars

(***************************************************************************)
(*        The codec on its own: _gen_data and _record_for, each way          *)
(***************************************************************************)
MaxStrLen == 3

TTLs == {300, 3600}
CodecNames == {<<>>, <<"www">>, <<"a">>}

\* octodns keeps the values of a record sorted and without duplicates
HostLists(a, b) == {<<a>>, <<b>>, <<a, b>>}

\* the characters of a TXT string: a plain one, the semicolon, the backslash
TxtChars == {"a", ";", "\\"}

\* the strings the vendor can return as TXT rdata
VendorStrings == SeqsUpTo(TxtChars, MaxStrLen)

\* octodns TXT validation (';' in value.replace('\;', '') is "unescaped ;"):
\* every semicolon of a record's value follows a backslash
Escaped(v) == \A k \in 1..Len(v) : v[k] = ";" => (k > 1 /\ v[k - 1] = "\\")

TxtValues == {v \in VendorStrings : Escaped(v)}

MxValues == [preference : {0, 10}, exchange : {<<"mx.a.">>}]
SrvValues == [priority : {0, 12}, weight : {5}, port : {443}, target : {<<"srv.a.">>}]
CaaValues == [flags : {0, 128}, tag : {<<"issue">>},
              value : {<<"ca.org">>, <<"\"", "ca.org", "\"">>}]

\* a record of ZoneA as octodns holds it, numeric fields as ints
CodecRecord(name, data) == [name |-> name, _type |-> data.type, zone |-> ZoneA, data |-> data]

CodecRecords ==
    {CodecRecord(n, [type |-> t, ttl |-> ttl, values |-> vs]) :
        n \in CodecNames, ttl \in TTLs, t \in {"A"}, vs \in HostLists("1.2.3.4", "5.6.7.8")}
    \cup {CodecRecord(n, [type |-> t, ttl |-> ttl, values |-> vs]) :
        n \in CodecNames, ttl \in TTLs, t \in {"AAAA"}, vs \in HostLists("::1", "::2")}
    \cup {CodecRecord(n, [type |-> t, ttl |-> ttl, values |-> vs]) :
        n \in CodecNames, ttl \in TTLs, t \in {"NS"}, vs \in HostLists("ns1.b.", "ns2.b.")}
    \cup {CodecRecord(n, [type |-> t, ttl |-> ttl, values |-> <<v>>]) :
        n \in CodecNames, ttl \in TTLs, t \in {"TXT"}, v \in TxtValues}
    \cup {CodecRecord(<<"www">>, [type |-> t, ttl |-> ttl, value |-> "target.b."]) :
        ttl \in TTLs, t \in {"CNAME", "PTR"}}
    \cup {CodecRecord(<<>>, [type |-> t, ttl |-> ttl, value |-> "target.b."]) :
        ttl \in TTLs, t \in {"ALIAS"}}
    \cup {CodecRecord(n, [type |-> t, ttl |-> ttl, values |-> <<v>>]) :
        n \in CodecNames, ttl \in TTLs, t \in {"MX"}, v \in MxValues}
    \cup {CodecRecord(n, [type |-> t, ttl |-> ttl, values |-> <<v>>]) :
        n \in CodecNames, ttl \in TTLs, t \in {"SRV"}, v \in SrvValues}
    \cup {CodecRecord(n, [type |-> t, ttl |-> ttl, values |-> <<v>>]) :
        n \in CodecNames, ttl \in TTLs, t \in {"CAA"}, v \in CaaValues}

\* updates of an A or AAAA record: same name and type, other values or ttl
CodecUpdates ==
    {Update(e, n) : e \in {r \in CodecRecords : r._type \in {"A", "AAAA"}},
                    n \in {r \in CodecRecords : r._type \in {"A", "AAAA"}}}

\* the rrsets the vendor returns for TXT, CAA and apex alias records
CodecRRSets ==
    {RRSet(ZoneA, "APEXALIAS (65282)", <<"target.b.">>)}
    \cup {RRSet(<<"www", ".">> \o ZoneA, "TXT (16)", <<v>>) : v \in VendorStrings}
    \cup {RRSet(ZoneA, "CAA (257)", <<str(f) \o <<" ", "issue", " ">> \o v>>) :
            f \in {0, 128}, v \in {<<"ca.org">>, <<"\"", "ca.org", "\"">>}}

CodecCalls ==
    {[op |-> "_apply_Create", change |-> Create(r)] : r \in CodecRecords}
    \cup {[op |-> "_apply_Update", change |-> c] :
            c \in {u \in CodecUpdates : /\ u.existing # u.new
                                        /\ u.existing.name = u.new.name
                                        /\ u.existing._type = u.new._type}}
    \cup {[op |-> "_apply_Delete", change |-> Delete(r)] : r \in CodecRecords}
    \cup {[op |-> "_record_for", records |-> x] : x \in CodecRRSets}

CodecInit ==
    /\ _sess = NewSession
    /\ _zones = None
    /\ _zone_records = EmptyDict
    /\ pc = "codec"
    /\ call \in CodecCalls
    /\ frame = NoFrame
    /\ http = <<>>
    /\ ret = Running
    /\ vendor = <<>>
    /\ seen = None
    /\ created = <<>>
    /\ fetched = EmptyDict

\* the request _apply_Create and _apply_Update make of _gen_data(change.new)
GenDataRequest(method, record) ==
    [method |-> method, path |-> _gen_data(record), json |-> _contents_for(record)]

\* the call populate makes for an rrset: the name relative to the zone, the type
\* of the rrtype label
RecordForRRSet(z, record) ==
    _record_for(z, hostname_from_fqdn(z, record.ownerName),
                RECORDS_TO_TYPE[record.rrtype], record)

\* _apply_Create, _apply_Update: the request is built from change.new
GenData ==
    /\ pc = "codec" /\ call.op \in {"_apply_Create", "_apply_Update"}
    /\ http' = <<GenDataRequest(IF call.op = "_apply_Create" THEN "POST" ELSE "PUT",
                                call.change.new)>>
    /\ pc' = "_gen_data"
    /\ UNCHANGED <<_sess, _zones, _zone_records, call, frame, ret, vendor, seen, created,
                   fetched>>

\* _record_for on the payload _gen_data produced
RecordForContent ==
    /\ pc = "_gen_data"
    /\ ret' = Returned(_record_for(call.change.new.zone, call.change.new.name,
                                   call.change.new._type, http[1].json))
    /\ pc' = "done"
    /\ UNCHANGED <<_sess, _zones, _zone_records, call, frame, http, vendor, seen, created,
                   fetched>>

\* _record_for on an rrset of the vendor
RecordFor ==
    /\ pc = "codec" /\ call.op = "_record_for"
    /\ ret' = Returned(RecordForRRSet(ZoneA, call.records))
    /\ pc' = "_record_for"
    /\ UNCHANGED <<_sess, _zones, _zone_records, call, frame, http, vendor, seen, created,
                   fetched>>

\* _gen_data on the record _record_for produced
GenDataOfRecord ==
    /\ pc = "_record_for"
    /\ http' = <<GenDataRequest("POST", ret.value)>>
    /\ pc' = "done"
    /\ UNCHANGED <<_sess, _zones, _zone_records, call, frame, ret, vendor, seen, created,
                   fetched>>

\* _apply_Delete at the entry of the snapshot that matches change.existing: the
\* DELETE request is built
DeleteOfMatch ==
    /\ pc = "codec" /\ call.op = "_apply_Delete"
    /\ http' = <<[method |-> "DELETE", path |-> DeletePath(call.change.existing),
                  json |-> Absent]>>
    /\ pc' = "done"
    /\ UNCHANGED <<_sess, _zones, _zone_records, call, frame, ret, vendor, seen, created,
                   fetched>>

CodecNext == GenData \/ RecordForContent \/ RecordFor \/ GenDataOfRecord \/ DeleteOfMatch

CodecSpec == CodecInit /\ [][CodecNext]_vars

(***************************************************************************)
(* The two pagination loops alone: zones / list_zones and zone_records of   *)
(* an adapter that is logged in, against a vendor whose rrset pages need    *)
(* not add up: it may send an empty page while rrsets are left, report      *)
(* offset 0 whatever was asked for, or a totalCount one above the number    *)
(* of rrsets of the zone. One call is followed to its end. Every request of *)
(* the session ends (a response or the timeout), and the code between two   *)
(* requests is sequential: the get actions are weakly fair.                 *)
(***************************************************************************)
\* the vendor answers at most this many rrset requests of one call: one more
\* than a listing needs when every page holds one rrset
MaxRRSetRequests == MaxRRs + 1

\* the rrset requests the running call has sent
RRSetRequests(z) == {k \in 1..Len(http) : http[k].path = RRSetsPath(z)}

\* what a zone may hold when its listing starts
PagedSnapshots(z) == {SubSeq(VendorRRSets(z), 1, n) : n \in 0..MaxRRs}

\* GET /v2/zones/{zone}/rrsets?offset=, answered wrongly: an empty page, also
\* while rrsets are left; the first rrset of the zone under offset 0, whatever
\* offset was asked for; the next rrset under a totalCount one above the number
\* of rrsets of the zone. (At offset 0, and past the last rrset, some of these
\* are the answers of a well-behaved vendor.)
FaultyRRSetPages(snap, offset) ==
    LET page(o, from, n, t) ==
            [Response(200, Body("object", 4, FALSE, 0)) EXCEPT
                !.rrSets = IF n = 0 THEN <<>> ELSE SubSeq(snap, from + 1, from + n),
                !.resultInfo = [offset |-> o, returnedCount |-> n, totalCount |-> t]]
    IN  {page(offset, offset, 0, Len(snap)),
         page(0, 0, IF snap = <<>> THEN 0 ELSE 1, Len(snap)),
         page(offset, offset, IF offset >= Len(snap) THEN 0 ELSE 1, Len(snap) + 1)}

\* the pages of a well-behaved vendor, and the faulty ones
AnyRRSetPages(snap, offset) == RRSetPages(snap, offset) \cup FaultyRRSetPages(snap, offset)

\* the adapter after a successful __init__
PagingInit ==
    /\ _sess = [NewSession EXCEPT !.headers.Authorization = <<"Bearer", AccessToken>>]
    /\ _zones = None
    /\ _zone_records = EmptyDict
    /\ pc = "idle"
    /\ call = NoCall
    /\ frame = NoFrame
    /\ http = <<>>
    /\ ret = Running
    /\ vendor = <<>>
    /\ seen = None
    /\ created = <<>>
    /\ fetched = EmptyDict

\* GET /v2/zones/{zone}/rrsets, answered by any vendor, and the code after it;
\* what the zone holds is fixed at the first request of the listing
RRSetsGetAnyVendor ==
    /\ pc = "zone_records"
    /\ Cardinality(RRSetRequests(frame.zone)) < MaxRRSetRequests
    /\ \E snap \in IF RRSetRequests(frame.zone) = {}
                   THEN PagedSnapshots(frame.zone) ELSE {vendor} :
          /\ vendor' = snap
          /\ \E resp \in ErrorResponses \cup AnyRRSetPages(snap, frame.offset) :
                /\ http' = Append(http, Exchange("GET", RRSetsPath(frame.zone), Absent,
                                                 frame.offset, RRSET_REQUEST_LIMIT, TRUE,
                                                 frame.idx, resp))
                /\ Becomes(zone_records_page(resp, _zones, _zone_records, frame, call))
    /\ UNCHANGED <<_sess, call, seen, created, fetched>>

PagingNext ==
    \/ \E op \in {"zones", "list_zones"} : CallZones(op)
    \/ \E z \in Targets : CallZoneRecords(z)
    \/ ZonesGet
    \/ RRSetsGetAnyVendor

PagingSpec ==
    /\ PagingInit
    /\ [][PagingNext]_vars
    /\ WF_vars(ZonesGet)
    /\ WF_vars(RRSetsGetAnyVendor)

(***************************************************************************)
(*                               The claims                                 *)
(***************************************************************************)
Exchanges == 1..Len(http)
IsZonesGet(e) == e.method = "GET" /\ e.path = ZonesPath
IsZoneCreate(e) == e.method = "POST" /\ e.path = ZoneCreatePath
IsRRSetsGet(e) == e.method = "GET" /\ Len(e.path) = 4
\* POST, PUT or DELETE under /v2/zones/{zone}/rrsets/
IsRRSetWrite(e) == e.method \in {"POST", "PUT", "DELETE"} /\ Len(e.path) = 6

\* the zone names of the zone pages of the log, in response order
ListedNames ==
    Concat([k \in Exchanges |->
              IF IsZonesGet(http[k])
              THEN [j \in 1..Len(http[k].resp.zones) |-> http[k].resp.zones[j].properties.name]
              ELSE <<>>])

\* the zones property has handed the running call its list: the list was cached
\* on entry, or the listing of this call is over
ZonesKnown == pc \notin {"idle", "zones"} /\ (call.zones0 = None => ret.at # "_request" \/ ~IsZonesGet(http[Len(http)]))

\* the zone list as the running call first saw it
ZonesFirstSeen == IF call.zones0 # None THEN call.zones0 ELSE ListedNames

\* the running call is an apply for a zone whose name the zone list did not hold
ApplyOfAbsentZone ==
    /\ call.op = "apply"
    /\ ZonesKnown
    /\ call.zone \notin Range(ZonesFirstSeen)

\* the running call is an apply for a zone whose name the zone list held
ApplyOfListedZone ==
    /\ call.op = "apply"
    /\ ZonesKnown
    /\ call.zone \in Range(ZonesFirstSeen)

\* the path of the rrset of a record of zone z, as the vendor's API documents it
PathOf(record) == RRSetPath(record.zone, record._type, Fqdn(record))

\* C1: in an apply for a zone absent from the zone list, exactly one POST
\* /v2/zones is issued, and it is issued before every request under
\* /v2/zones/{zone}/rrsets of that apply.
C1_ZoneCreatedFirst ==
    ApplyOfAbsentZone =>
        LET creates == {k \in Exchanges : IsZoneCreate(http[k])}
        IN  /\ Cardinality(creates) = IF pc = "create_zone" THEN 0 ELSE 1
            /\ \A k \in Exchanges :
                  IsRRSetWrite(http[k]) \/ IsRRSetsGet(http[k]) => \E j \in creates : j < k

C1_Witness ==
    /\ ApplyOfAbsentZone
    /\ pc = "done" /\ ret.exc = ""
    /\ Cardinality({k \in Exchanges : IsRRSetWrite(http[k])}) = 2

\* C2: in an apply that creates the zone, a Create of the apex NS record is sent
\* as PUT to the path of that record, and no POST goes to that path.
C2_RootNSCreateIsPut ==
    ApplyOfAbsentZone =>
        \A k \in Exchanges :
            LET e == http[k]
                root == Rec(<<>>, "NS", call.zone)
            IN  /\ (e.change > 0 /\ call.plan[e.change] = Create(root))
                       => e.method = "PUT" /\ e.path = PathOf(root)
                /\ ~(e.method = "POST" /\ e.path = PathOf(root))

C2_Witness ==
    /\ ApplyOfAbsentZone
    /\ \E k \in Exchanges :
          /\ http[k].change > 0
          /\ call.plan[http[k].change] = Create(Rec(<<>>, "NS", call.zone))
          /\ http[k].method = "PUT" /\ http[k].raised = ""

\* the position in the plan of the change a write request belongs to: the plan
\* holds one change per record, and the path names the record
PlanPositions(e) ==
    {i \in 1..Len(call.plan) :
        /\ PathOf(ChangeRecord(call.plan[i])) = e.path
        /\ e.method = CASE call.plan[i].class = "Delete" -> "DELETE"
                        [] call.plan[i].class = "Update" -> "PUT"
                        [] call.plan[i] = Create(Rec(<<>>, "NS", call.zone))
                              /\ ApplyOfAbsentZone -> "PUT"
                        [] OTHER -> "POST"}

\* C3: within one apply the write requests follow the order of the plan, each is
\* answered before the next is issued, and the root-NS rewrite leaves every
\* change at its position.
C3_ChangesInOrder ==
    call.op = "apply" =>
        /\ \A j, k \in Exchanges :
              j < k /\ IsRRSetWrite(http[j]) /\ IsRRSetWrite(http[k]) =>
                  /\ http[j].raised = ""
                  /\ PlanPositions(http[j]) # {} /\ PlanPositions(http[k]) # {}
                  /\ \A a \in PlanPositions(http[j]) : \A b \in PlanPositions(http[k]) : a <= b
        /\ pc \in {"changes", "delete"} =>
              /\ Len(frame.changes) = Len(call.plan)
              /\ \A i \in 1..Len(call.plan) :
                    ChangeRecord(frame.changes[i]) = ChangeRecord(call.plan[i])

C3_Witness ==
    /\ ApplyOfAbsentZone
    /\ call.plan = <<Create(Rec(<<"www">>, "A", call.zone)), Create(Rec(<<>>, "NS", call.zone))>>
    /\ pc = "done" /\ ret.exc = ""
    /\ \E j, k \in Exchanges :
          /\ j < k
          /\ http[j].method = "POST" /\ http[j].path = PathOf(call.plan[1].new)
          /\ http[k].method = "PUT" /\ http[k].path = PathOf(call.plan[2].new)

\* a request that failed for the caller: _request raised, and the zones
\* property did not take the exception for an empty account
Failed(e) == e.raised # "" /\ ~(IsZonesGet(e) /\ e.raised = "UltraNoZonesExistException")

\* C4: a failed request of an apply is its last request, and the exception
\* reaches the caller: no later change is applied and nothing is rolled back.
C4_ApplyAbortsOnFailure ==
    call.op = "apply" =>
        \A k \in Exchanges :
            Failed(http[k]) =>
                /\ k = Len(http)
                /\ pc = "done"
                /\ ret.exc = http[k].raised

C4_Witness ==
    /\ call.op = "apply"
    /\ pc = "done" /\ ret.exc = "HTTPError"
    /\ Len(call.plan) = 2
    /\ \E k \in Exchanges :
          /\ IsRRSetWrite(http[k]) /\ http[k].change = 1 /\ Failed(http[k])
          /\ k > 1 /\ IsZoneCreate(http[k - 1])

\* C5: when an apply has gone through all its changes, self._zone_records has
\* no entry for its zone and the zone list holds the zone, and a zone_records
\* call that finds no entry for a listed zone asks the vendor for the rrsets.
C5_CacheInvalidatedAfterApply ==
    /\ (call.op = "apply" /\ pc = "done" /\ ret.exc = "") =>
          /\ call.zone \notin DOMAIN _zone_records
          /\ call.zone \in Range(_zones)
    /\ (call.op = "zone_records" /\ pc = "done" /\ ret.exc = ""
            /\ call.records0 = <<>> /\ call.zone \in Range(_zones)) =>
          \E k \in Exchanges :
              IsRRSetsGet(http[k]) /\ http[k].path = RRSetsPath(call.zone) /\ http[k].offset = 0

C5_Witness ==
    /\ ApplyOfAbsentZone
    /\ pc = "done" /\ ret.exc = ""
    /\ Len(call.plan) = 2
    /\ call.zone \notin DOMAIN _zone_records

C5_WitnessRefetch ==
    /\ call.op = "zone_records" /\ pc = "done" /\ ret.exc = ""
    /\ call.records0 = <<>> /\ call.zones0 # None /\ call.zone \in Range(call.zones0)
    /\ Len(ret.value) = 2

\* an entry of the snapshot with the owner name of the record and an rrtype the
\* lookup table maps to the type of the record
Matches(record, existing) ==
    /\ record.ownerName = Fqdn(existing)
    /\ record.rrtype \in DOMAIN RECORDS_TO_TYPE
    /\ RECORDS_TO_TYPE[record.rrtype] = existing._type

\* _apply_Delete has the snapshot for the Delete at position i of the changes:
\* zone_records has returned to it (within one apply every Delete gets the same
\* list: the first lookup leaves it in self._zone_records)
LookedUp(i) ==
    /\ call.op = "apply"
    /\ i \in 1..Len(frame.changes)
    /\ frame.changes[i].class = "Delete"
    /\ \/ frame.idx > i
       \/ frame.idx = i /\ pc = "delete"
       \/ frame.idx = i /\ pc = "done" /\ ret.at = "_apply_Delete"
       \/ frame.idx = i /\ pc = "done" /\ http # <<>> /\ http[Len(http)].method = "DELETE"

\* the Delete at position i has a snapshot without an entry for its record
DeleteWithoutMatch(i) ==
    /\ LookedUp(i)
    /\ \A k \in 1..Len(frame.lookup) : ~Matches(frame.lookup[k], frame.changes[i].existing)

\* a Delete without a match causes no request but those of the lookup
C6_NoRequestWithoutMatch ==
    \A i \in 1..Len(frame.changes) :
        DeleteWithoutMatch(i) =>
            \A k \in Exchanges : http[k].change = i => IsRRSetsGet(http[k])

\* C6: a Delete whose record matches no entry of the snapshot (same owner name,
\* same mapped type) issues no DELETE request, causes no request but those of
\* the lookup, and raises no error.
C6_DeleteWithoutMatchIsNoOp ==
    /\ C6_NoRequestWithoutMatch
    /\ \A i \in 1..Len(frame.changes) :
          DeleteWithoutMatch(i) => ~(frame.idx = i /\ pc = "done" /\ ret.exc # "")

\* a Delete without a match that went through: the snapshot was fetched and
\* holds entries, the apply returned
C6_WitnessNoOp ==
    /\ DeleteWithoutMatch(1)
    /\ pc = "done" /\ ret.exc = ""
    /\ Len(frame.lookup) = 2
    /\ \E k \in Exchanges : IsRRSetsGet(http[k])

\* the positions of the zone listing requests in the log
ZoneGets == {k \in Exchanges : IsZonesGet(http[k])}

\* C7: the first zone listing request carries no cursor; after a page with a
\* next token the next request is a zone listing request carrying that token,
\* after a page without one (or the no-data answer) there is no further zone
\* listing request; the list is the names of all pages in response order.
C7_CursorPagination ==
    /\ \A k \in ZoneGets :
          /\ k = 1 => http[k].cursor = Absent
          /\ http[k].limit = ZONE_REQUEST_LIMIT
          /\ http[k].raised = "" /\ http[k].resp.cursorInfo.next # Absent =>
                IF k = Len(http)
                THEN pc = "zones" /\ frame.cursor = http[k].resp.cursorInfo.next
                ELSE IsZonesGet(http[k + 1])
                        /\ http[k + 1].cursor = http[k].resp.cursorInfo.next
          /\ http[k].raised = "UltraNoZonesExistException"
                \/ (http[k].raised = "" /\ http[k].resp.cursorInfo.next = Absent) =>
                /\ pc # "zones"
                /\ \A j \in ZoneGets : j <= k
    /\ (call.op \in {"zones", "list_zones"} /\ pc = "done" /\ ret.exc = ""
            /\ call.zones0 = None) =>
          /\ ret.value = ListedNames
          /\ _zones = ListedNames

C7_Witness ==
    /\ call.op = "zones" /\ pc = "done" /\ ret.exc = ""
    /\ Len(http) = 2
    /\ http[2].cursor = Token(1)
    /\ ret.value = <<ZoneB, ZoneA>>

\* the body of the no-data condition: a JSON array of one object with errorCode
\* 70002
NoDataBody(resp) ==
    /\ resp.body.kind = "array" /\ resp.body.len = 1
    /\ resp.body.hasErrorCode /\ resp.body.errorCode = NO_DATA

\* the claim for the no-data body under the status the vendor documents for it
C8_NoDataAt404 ==
    (/\ call.op \in {"zones", "list_zones"}
     /\ http # <<>> /\ IsZonesGet(http[1])
     /\ NoDataBody(http[1].resp) /\ http[1].resp.status = 404) =>
        Len(http) = 1 /\ pc = "done" /\ ret = Returned(<<>>) /\ _zones = <<>>

C8_WitnessAt404 ==
    /\ call.op = "zones" /\ pc = "done" /\ ret = Returned(<<>>)
    /\ Len(http) = 1 /\ http[1].raised = "UltraNoZonesExistException"

\* C8: when the first answer to the zone listing has the no-data body
\* (errorCode 70002), zones() sends no second request, returns the empty list
\* and raises nothing.
C8_NoDataIsEmptyList ==
    (/\ call.op \in {"zones", "list_zones"}
     /\ http # <<>> /\ IsZonesGet(http[1])
     /\ NoDataBody(http[1].resp)) =>
        Len(http) = 1 /\ pc = "done" /\ ret = Returned(<<>>)

\* a zones() or list_zones() call made after one that completed successfully
LaterZonesCall == call.op \in {"zones", "list_zones"} /\ seen # None

\* C9 as stated: once zones() has completed successfully, every later zones()
\* or list_zones() call issues no request and returns the list that call
\* returned.
C9_SameListEveryCall ==
    LaterZonesCall => pc = "done" /\ http = <<>> /\ ret = Returned(seen)

\* C9 as amended: once zones() has completed successfully, every later zones()
\* or list_zones() call issues no request and returns the cached list, which is
\* the list the call before it returned followed by the names of the zones that
\* applies have created since.
C9_SameListPlusCreated ==
    LaterZonesCall =>
        /\ pc = "done" /\ http = <<>>
        /\ ret = Returned(seen \o created)
        /\ ret.value = _zones

C9_Witness ==
    /\ call.op = "list_zones" /\ pc = "done"
    /\ seen = <<ZoneB>> /\ created = <<ZoneA>>
    /\ ret = Returned(<<ZoneB, ZoneA>>)

C9_WitnessUnchanged ==
    /\ LaterZonesCall /\ pc = "done"
    /\ created = <<>> /\ Len(seen) = 2 /\ ret = Returned(seen)

\* the positions of the rrset listing requests in the log
RRSetGets == {k \in Exchanges : IsRRSetsGet(http[k])}

\* the rrsets of the pages of the log, in response order
ListedRRSets ==
    Concat([k \in Exchanges |-> IF IsRRSetsGet(http[k]) THEN http[k].resp.rrSets ELSE <<>>])

\* C10: the rrset listing of a zone of the zone list starts at offset 0 with
\* limit 1000; each follow-up request carries the previous offset plus the
\* previous page's returnedCount; a follow-up is issued exactly while offset +
\* returnedCount < totalCount; the list returned is the rrsets of all pages in
\* vendor order and has totalCount entries, whatever the size of the pages.
C10_OffsetPagination ==
    /\ \A k \in RRSetGets :
          LET info == http[k].resp.resultInfo
          IN  /\ http[k].limit = RRSET_REQUEST_LIMIT
              /\ http[k].path = RRSetsPath(call.zone)
              /\ call.zone \in Range(_zones)
              /\ IF \A j \in RRSetGets : j >= k
                 THEN http[k].offset = 0
                 ELSE /\ IsRRSetsGet(http[k - 1]) /\ http[k - 1].raised = ""
                      /\ http[k].offset = http[k - 1].offset
                                            + http[k - 1].resp.resultInfo.returnedCount
              /\ http[k].raised = "" =>
                    IF info.offset + info.returnedCount < info.totalCount
                    THEN IF k = Len(http) THEN pc = "zone_records"
                         ELSE IsRRSetsGet(http[k + 1])
                    ELSE /\ pc # "zone_records"
                         /\ \A j \in RRSetGets : j <= k
    /\ (call.op = "zone_records" /\ pc = "done" /\ ret.exc = "" /\ RRSetGets # {}) =>
          /\ ret.value = ListedRRSets
          /\ ret.value = vendor
          /\ Len(ret.value) = http[Len(http)].resp.resultInfo.totalCount
          /\ _zone_records[call.zone] = ret.value

C10_Witness ==
    /\ call.op = "zone_records" /\ pc = "done" /\ ret.exc = ""
    /\ Cardinality(RRSetGets) = 2
    /\ Len(ret.value) = 3
    /\ \E k \in RRSetGets : http[k].offset = 2 /\ http[k].resp.resultInfo.returnedCount = 1

\* a zone_records call for a zone for which zone_records has completed, with
\* no apply for the zone since
LaterZoneRecordsCall == call.op = "zone_records" /\ call.zone \in DOMAIN fetched

\* C11: after zone_records has completed for a zone, a further zone_records
\* call for it, with no apply for the zone in between, issues no request and
\* returns the list the earlier call returned.
C11_RecordsCached ==
    LaterZoneRecordsCall =>
        pc = "done" /\ http = <<>> /\ ret = Returned(fetched[call.zone])

C11_Witness ==
    /\ LaterZoneRecordsCall /\ pc = "done"
    /\ Len(fetched[call.zone]) = 2
    /\ ret = Returned(fetched[call.zone])
    /\ _zone_records[call.zone] = ret.value

\* the running call is a zone_records or a populate for a zone whose name the
\* zone list does not hold
ReadOfAbsentZone ==
    /\ call.op \in {"zone_records", "populate"}
    /\ ZonesKnown
    /\ call.zone \notin Range(ZonesFirstSeen)

\* C12: for a zone that is not in the zone list zone_records returns [] and
\* populate adds no record and returns exists = False; the call issues no rrset
\* request, and no request at all when the zone list was cached.
C12_AbsentZoneIsEmpty ==
    ReadOfAbsentZone =>
        /\ pc = "done" /\ ret.exc = ""
        /\ call.op = "zone_records" => ret.value = <<>>
        /\ call.op = "populate" => ret.value = [exists |-> FALSE, records |-> {}]
        /\ \A k \in Exchanges : IsZonesGet(http[k])
        /\ call.zones0 # None => http = <<>>
        /\ call.zone \notin DOMAIN _zone_records

C12_Witness ==
    /\ ReadOfAbsentZone
    /\ call.op = "populate" /\ pc = "done"
    /\ call.zones0 = <<ZoneB>> /\ http = <<>>
    /\ ret.value.exists = FALSE

C12_WitnessListing ==
    /\ ReadOfAbsentZone
    /\ call.op = "zone_records" /\ pc = "done"
    /\ call.zones0 = None /\ Len(http) = 2 /\ _zones = <<ZoneB>>
    /\ ret.value = <<>>

\* the one request of a behaviour of RequestSpec has been answered
Answered == pc = "done" /\ Len(http) = 1 /\ "resp" \in DOMAIN call

\* C13: a response with status 401 makes _request raise Unauthorized, for every
\* body and for both values of json_response; on the token request __init__
\* raises it and no Authorization header is installed.
C13_UnauthorizedOn401 ==
    (Answered /\ call.resp.status = 401) =>
        /\ ret = Raised("UltraClientUnauthorized", "_request")
        /\ http[1].raised = "UltraClientUnauthorized"
        /\ call.op = "_login" => _sess = NewSession

C13_Witness ==
    /\ Answered /\ call.resp.status = 401
    /\ call.op = "_login" /\ call.resp.body.kind = "text"
    /\ ret.exc = "UltraClientUnauthorized"

C13_WitnessNoJSON ==
    /\ Answered /\ call.resp.status = 401
    /\ ~call.json_response /\ call.resp.body = Body("array", 1, TRUE, NO_DATA)
    /\ ret.exc = "UltraClientUnauthorized"

\* C14: with a JSON response expected, a response with a status other than 401
\* whose body is the no-data body (an array of one object with errorCode 70002)
\* makes _request raise NoZonesExist, whatever the status.
C14_NoDataForEveryStatus ==
    (/\ Answered /\ call.json_response
     /\ call.resp.status # 401 /\ NoDataBody(call.resp)) =>
        ret.exc = "UltraNoZonesExistException"

\* what holds of the code: the no-data body is recognised under status 404, and
\* NoZonesExist is raised for nothing else
C14_NoDataAt404Only ==
    Answered =>
        (ret.exc = "UltraNoZonesExistException"
            <=> call.json_response /\ call.resp.status = 404 /\ NoDataBody(call.resp))

C14_WitnessAt404 ==
    /\ Answered /\ call.op = "_get"
    /\ call.resp.status = 404 /\ NoDataBody(call.resp)
    /\ ret.exc = "UltraNoZonesExistException"

\* the response is a failure other than the 401 and the no-data body
OtherFailure ==
    /\ call.resp.status >= 400 /\ call.resp.status # 401
    /\ ~(call.json_response /\ NoDataBody(call.resp))

\* C15: a 4xx/5xx response that is neither a 401 nor the no-data condition makes
\* _request raise HTTPError, for every body shape and both values of
\* json_response; a 2xx response (with a body that decodes, when JSON is
\* expected) makes it return the decoded payload.
C15_HTTPErrorOtherwise ==
    Answered /\ call.op # "_login" =>
        /\ OtherFailure => ret = Raised("HTTPError", "_request")
        /\ (call.resp.status \in 200..299
                /\ ~(call.json_response /\ call.resp.body.kind = "text")) =>
              ret = Returned(Payload(call.resp, call.json_response))

\* what holds of the code: HTTPError for these failures when no JSON is
\* expected, or when the body is JSON and the status is not 404 with a body of
\* length 1
C15_HTTPErrorForDecodableBodies ==
    (/\ Answered /\ OtherFailure
     /\ ~call.json_response
           \/ (call.resp.body.kind # "text"
                  /\ ~(call.resp.status = 404 /\ call.resp.body.len = 1))) =>
        ret = Raised("HTTPError", "_request")

C15_WitnessHTTPError ==
    /\ Answered /\ OtherFailure
    /\ call.resp.status = 400 /\ call.resp.body = Body("object", 2, FALSE, 0)
    /\ call.json_response
    /\ ret.exc = "HTTPError"

\* C16: when the vendor answers an rrset listing with the no-data response (404
\* with the 70002 body), no NoZonesExist reaches the caller of zone_records,
\* populate or apply, and zone_records answered so on its first request
\* returns the empty list.
C16_NoDataOnRecordsIsEmpty ==
    \A k \in RRSetGets :
        (http[k].resp.status = 404 /\ NoDataBody(http[k].resp)) =>
            /\ ret.exc # "UltraNoZonesExistException"
            /\ (call.op = "zone_records" /\ http[k].offset = 0) =>
                  pc = "done" /\ ret = Returned(<<>>)

\* what holds of the code: the exception of a failed rrset listing request is
\* the exception of the call, NoZonesExist like any other
C16_RecordListingFailurePropagates ==
    \A k \in RRSetGets :
        http[k].raised # "" =>
            k = Len(http) /\ pc = "done" /\ ret = Raised(http[k].raised, "_request")

C16_WitnessPropagates ==
    /\ call.op = "populate" /\ pc = "done"
    /\ ret = Raised("UltraNoZonesExistException", "_request")
    /\ IsRRSetsGet(http[Len(http)])

\* the token request is in the log
TokenRequested == \E k \in Exchanges : http[k].path = TokenPath

\* one step of the adapter as C17 allows it: the step at the token request
\* issues that request and nothing else; every other step issues no token
\* request, leaves the headers of the session alone and never leads back to
\* the token request
C17_Step ==
    /\ pc = "_login" =>
          /\ Len(http') = 1
          /\ http'[1].method = "POST" /\ http'[1].path = TokenPath
    /\ pc # "_login" =>
          /\ pc' # "_login"
          /\ _sess' = _sess
          /\ \A k \in 1..Len(http') : http'[k].path # TokenPath

\* C17: the adapter starts with the token request, before any other request;
\* it is the only token request of the adapter's life; once it has succeeded
\* the Authorization header is Bearer <access_token> and no later operation
\* changes the headers.
C17_LoginOnce ==
    /\ pc = "_login" /\ http = <<>>
    /\ [](call.op # "__init__" =>
            _sess.headers.Authorization = <<"Bearer", AccessToken>>)
    /\ [][C17_Step]_vars

C17_Witness ==
    /\ call.op = "apply" /\ pc = "done" /\ ret.exc = "UltraClientUnauthorized"
    /\ Len(http) = 3 /\ ~TokenRequested
    /\ _sess.headers.Authorization = <<"Bearer", AccessToken>>

\* the request of a Create or an Update has been built
Encoded == call.op \in {"_apply_Create", "_apply_Update"} /\ pc \in {"_gen_data", "done"}

\* C18: the payload of an A or AAAA record with one value has the keys ttl and
\* rdata and no profile; with two or more values it has a profile whose order
\* is FIXED and whose description is the fqdn of the record. An Update sends
\* the shape of its new record, whatever the existing record was.
C18_ProfileOnlyForSeveralValues ==
    (Encoded /\ call.change.new._type \in {"A", "AAAA"}) =>
        LET new == call.change.new
            json == http[1].json
        IN  /\ json.ttl = new.data.ttl /\ json.rdata = new.data.values
            /\ Len(new.data.values) = 1 => DOMAIN json = {"ttl", "rdata"}
            /\ Len(new.data.values) >= 2 =>
                  /\ DOMAIN json = {"ttl", "rdata", "profile"}
                  /\ json.profile.order = "FIXED"
                  /\ json.profile.description = Fqdn(new)

\* an Update from two values to one has been sent as PUT without a profile
C18_Witness ==
    /\ Encoded /\ call.op = "_apply_Update"
    /\ call.change.new._type \in {"A", "AAAA"}
    /\ Len(call.change.existing.data.values) = 2
    /\ Len(call.change.new.data.values) = 1
    /\ http[1].method = "PUT"
    /\ "profile" \notin DOMAIN http[1].json

\* a Create of two values has been sent with the profile
C18_WitnessProfile ==
    /\ Encoded /\ call.op = "_apply_Create"
    /\ call.change.new._type = "AAAA"
    /\ Len(call.change.new.data.values) = 2
    /\ http[1].json.profile.order = "FIXED"

\* a TXT rrset of the vendor has been decoded
DecodedTXT ==
    /\ call.op = "_record_for" /\ pc \in {"_record_for", "done"}
    /\ RECORDS_TO_TYPE[call.records.rrtype] = "TXT"

\* C19: for every raw TXT string v of the vendor, the decoded value has a
\* backslash put before each semicolon of v (and before nothing else), and
\* encoding the decoded record yields v again, also when v already holds a
\* backslash before a semicolon.
C19_EscapingInvertedByEncoding ==
    DecodedTXT =>
        LET v == call.records.rdata[1]
            d == ret.value.data.values[1]
        IN  /\ ret.value._type = "TXT" /\ Len(ret.value.data.values) = 1
            /\ Escaped(d)
            /\ Len(d) = Len(v) + Cardinality({k \in 1..Len(v) : v[k] = ";"})
            /\ pc = "done" => http[1].json.rdata = <<v>>

\* a raw string with a backslash before a semicolon went through decode and
\* encode and came back
C19_Witness ==
    /\ DecodedTXT /\ pc = "done"
    /\ \E k \in 1..(Len(call.records.rdata[1]) - 1) :
          call.records.rdata[1][k] = "\\" /\ call.records.rdata[1][k + 1] = ";"
    /\ ret.value.data.values[1] # call.records.rdata[1]
    /\ http[1].json.rdata = call.records.rdata

\* a record with a single value has been encoded and its payload decoded
RoundTripped ==
    /\ call.op \in {"_apply_Create", "_apply_Update"} /\ pc = "done"
    /\ \/ "value" \in DOMAIN call.change.new.data
       \/ Len(call.change.new.data.values) = 1

\* a CAA rrset of the vendor has been decoded and the record encoded
ReencodedCAA ==
    /\ call.op = "_record_for" /\ pc = "done"
    /\ RECORDS_TO_TYPE[call.records.rrtype] = "CAA"

\* C20: for a single-value record of a supported type other than CAA, decoding
\* the payload of its encoding gives the record back (name, type, ttl, value).
\* For CAA the decoded value is the record's value without surrounding quotes,
\* all else equal, and encoding a decoded vendor rrset writes the value without
\* the quotes the vendor had around it.
C20_RoundTrip ==
    /\ RoundTripped =>
          LET new == call.change.new
          IN  /\ ret.exc = ""
              /\ new._type # "CAA" => ret.value = new
              /\ new._type = "CAA" =>
                    /\ ret.value =
                          [new EXCEPT !.data.values[1].value = strip_quotes(@)]
                    /\ split(http[1].json.rdata[1])[3] = new.data.values[1].value
    /\ ReencodedCAA =>
          /\ split(http[1].json.rdata[1])[3] = strip_quotes(split(call.records.rdata[1])[3])
          /\ split(http[1].json.rdata[1])[1] = split(call.records.rdata[1])[1]
          /\ split(http[1].json.rdata[1])[2] = split(call.records.rdata[1])[2]

\* a TXT record with an escaped semicolon came back from its payload, which
\* holds the semicolon without the backslash
C20_Witness ==
    /\ RoundTripped
    /\ call.change.new._type = "TXT"
    /\ call.change.new.data.values[1] = <<"a", "\\", ";">>
    /\ http[1].json.rdata[1] = <<"a", ";">>
    /\ ret.value = call.change.new

\* an MX record came back from its payload with the preference as a number
C20_WitnessMX ==
    /\ RoundTripped
    /\ call.change.new._type = "MX"
    /\ call.change.new.data.values[1].preference = 10
    /\ http[1].json.rdata[1] = <<"1", "0", " ", "mx.a.">>
    /\ ret.value = call.change.new

\* each supported type has been through the round trip
C20_WitnessTypes ==
    /\ RoundTripped
    /\ call.change.new._type \in
          {"A", "AAAA", "ALIAS", "CNAME", "NS", "PTR", "SRV"}
    /\ ret.value = call.change.new

\* a quoted CAA value of the vendor lost its quotes and the payload shows none
C20_WitnessCAA ==
    /\ ReencodedCAA
    /\ split(call.records.rdata[1])[3] = <<"\"", "ca.org", "\"">>
    /\ ret.value.data.values[1].value = <<"ca.org">>
    /\ http[1].json.rdata[1] # call.records.rdata[1]

\* a CAA record holding quotes came back without them
C20_WitnessCAARecord ==
    /\ RoundTripped
    /\ call.change.new._type = "CAA"
    /\ ret.value # call.change.new

\* the request of a Create, an Update or a Delete has been built
PathBuilt ==
    /\ call.op \in {"_apply_Create", "_apply_Update", "_apply_Delete"}
    /\ http # <<>>

\* C21: the path of the request of a Create, an Update or a Delete is
\* /v2/zones/{zone name}/rrsets/{wire type}/{fqdn}: the zone name is the name of
\* the record's zone at the apex and below it, the wire type is the record's
\* type, APEXALIAS for ALIAS. The decode table maps no two labels to one type,
\* maps the APEXALIAS label to ALIAS, and an rrset of that label is decoded to
\* a record whose request goes to the APEXALIAS path again.
C21_PathOfRecord ==
    /\ PathBuilt =>
          LET r == ChangeRecord(call.change)
          IN  /\ r._type \in SUPPORTS
              /\ http[1].method = CASE call.op = "_apply_Create" -> "POST"
                                    [] call.op = "_apply_Update" -> "PUT"
                                    [] OTHER -> "DELETE"
              /\ http[1].path =
                    << <<"v2">>, <<"zones">>, r.zone, <<"rrsets">>,
                       <<IF r._type = "ALIAS" THEN "APEXALIAS" ELSE r._type>>,
                       (IF r.name = <<>> THEN r.zone ELSE r.name \o <<".">> \o r.zone) >>
    /\ \A l1, l2 \in DOMAIN RECORDS_TO_TYPE :
          RECORDS_TO_TYPE[l1] = RECORDS_TO_TYPE[l2] => l1 = l2
    /\ RECORDS_TO_TYPE["APEXALIAS (65282)"] = "ALIAS"
    /\ (call.op = "_record_for" /\ pc = "done") =>
          /\ ret.value._type = RECORDS_TO_TYPE[call.records.rrtype]
          /\ http[1].path[5] =
                <<IF call.records.rrtype = "APEXALIAS (65282)" THEN "APEXALIAS"
                  ELSE ret.value._type>>
          /\ http[1].path[3] = ZoneA
          /\ http[1].path[6] = call.records.ownerName

\* a Delete of a record below the apex whose name is the first label of the
\* zone name went to the path of the zone
C21_Witness ==
    /\ PathBuilt /\ call.op = "_apply_Delete"
    /\ call.change.existing.name = <<"a">>
    /\ call.change.existing.zone = <<"a", ".">>
    /\ http[1].path[3] = <<"a", ".">>
    /\ http[1].path[6] = <<"a", ".", "a", ".">>

\* an Update of an apex record went to the path of the zone
C21_WitnessApex ==
    /\ PathBuilt /\ call.op = "_apply_Update"
    /\ call.change.new.name = <<>>
    /\ http[1].path[3] = http[1].path[6]

\* the ALIAS record went to the APEXALIAS path
C21_WitnessAlias ==
    /\ PathBuilt /\ call.op = "_apply_Create"
    /\ call.change.new._type = "ALIAS"
    /\ http[1].path[5] = <<"APEXALIAS">>

\* an APEXALIAS rrset was decoded to an ALIAS record and sent to APEXALIAS
C21_WitnessDecoded ==
    /\ call.op = "_record_for" /\ pc = "done"
    /\ call.records.rrtype = "APEXALIAS (65282)"
    /\ ret.value._type = "ALIAS"
    /\ http[1].path[5] = <<"APEXALIAS">>

\* populate has returned what it made of the rrsets zone_records gave it
Populated == call.op = "populate" /\ pc = "done" /\ ret.exc = ""

\* an rrset populate does not look at: an SOA, an A rrset of a directional
\* pool, an rrtype label outside the table
Skipped(record) ==
    \/ record.rrtype = "SOA (6)"
    \/ record.rrtype = "A (1)" /\ record.profile.context = DirPool
    \/ record.rrtype \notin DOMAIN RECORDS_TO_TYPE

Kept(records) == SelectSeq(records, LAMBDA record : ~Skipped(record))

\* C22: populate does not raise on an SOA, an A rrset of a directional pool or
\* an rrset with an unknown rrtype label, and the records it produces are those
\* it produces of the list without these rrsets: every other rrset has its
\* record, and every record comes from an rrset that is not skipped.
C22_SkippedRRSetsLeaveNoTrace ==
    /\ (call.op = "populate" /\ pc = "done" /\ \A k \in Exchanges : ~Failed(http[k])) =>
          ret.exc = ""
    /\ Populated =>
          /\ ret.value.records = populate(call.zone, Kept(frame.lookup)).records
          /\ \A k \in 1..Len(frame.lookup) :
                ~Skipped(frame.lookup[k]) =>
                    \E r \in ret.value.records :
                       /\ Fqdn(r) = frame.lookup[k].ownerName
                       /\ r._type = RECORDS_TO_TYPE[frame.lookup[k].rrtype]
          /\ \A r \in ret.value.records :
                \E k \in 1..Len(frame.lookup) :
                   /\ ~Skipped(frame.lookup[k])
                   /\ Fqdn(r) = frame.lookup[k].ownerName
                   /\ r.data.values = frame.lookup[k].rdata

\* populate got an A rrset, then the rrset of a directional pool and an HINFO
\* rrset of the same owner, and produced the record of the first alone
C22_Witness ==
    /\ Populated
    /\ Len(frame.lookup) = 3
    /\ ~Skipped(frame.lookup[1])
    /\ frame.lookup[2].profile.context = DirPool
    /\ frame.lookup[3].rrtype = "HINFO (13)"
    /\ Cardinality(ret.value.records) = 1
    /\ \A r \in ret.value.records : r.data.values = frame.lookup[1].rdata

\* populate got an SOA among other rrsets
C22_WitnessSOA ==
    /\ Populated
    /\ \E k \in 1..Len(frame.lookup) : frame.lookup[k].rrtype = "SOA (6)"
    /\ ret.value.records # {}

\* the positions in the list populate got of the rrsets of the group of r:
\* not skipped, the owner name and the type of r
GroupOf(r) ==
    {k \in 1..Len(frame.lookup) :
        /\ ~Skipped(frame.lookup[k])
        /\ frame.lookup[k].ownerName = Fqdn(r)
        /\ RECORDS_TO_TYPE[frame.lookup[k].rrtype] = r._type}

\* the names and types of the rrsets that are not skipped
Groups ==
    {<<frame.lookup[k].ownerName, RECORDS_TO_TYPE[frame.lookup[k].rrtype]>> :
        k \in {j \in 1..Len(frame.lookup) : ~Skipped(frame.lookup[j])}}

\* C23: populate produces one record for each (name, type) of the rrsets it
\* does not skip, and the record of a group has the ttl and the data of the
\* last rrset of the group in the order of the vendor.
C23_OneRecordPerGroupLastWins ==
    Populated =>
        /\ {<<Fqdn(r), r._type>> : r \in ret.value.records} = Groups
        /\ Cardinality(ret.value.records) = Cardinality(Groups)
        /\ \A r \in ret.value.records :
              LET last == CHOOSE k \in GroupOf(r) : \A j \in GroupOf(r) : j <= k
              IN  /\ GroupOf(r) # {}
                  /\ r.zone = call.zone
                  /\ r.data.ttl = frame.lookup[last].ttl
                  /\ r.data.values = frame.lookup[last].rdata

\* the vendor listed two A rrsets of one owner; the record has the data of
\* the second
C23_Witness ==
    /\ Populated
    /\ \E r \in ret.value.records :
          /\ Cardinality(GroupOf(r)) = 2
          /\ \E i, j \in GroupOf(r) :
                /\ i < j
                /\ frame.lookup[i].rdata # frame.lookup[j].rdata
                /\ r.data.values = frame.lookup[j].rdata

\* C24: in an apply for a zone the zone list held, no zone is created and no
\* change is rewritten: the changes applied are those of the plan, every Create
\* (the one of the apex NS record too) is sent as POST, every Update as PUT.
C24_NoRewriteForListedZone ==
    ApplyOfListedZone =>
        /\ frame.changes = call.plan
        /\ \A k \in Exchanges :
              /\ ~IsZoneCreate(http[k])
              /\ IsRRSetWrite(http[k]) =>
                    /\ http[k].change \in 1..Len(call.plan)
                    /\ http[k].method =
                          CASE call.plan[http[k].change].class = "Create" -> "POST"
                            [] call.plan[http[k].change].class = "Update" -> "PUT"
                            [] OTHER -> "DELETE"
                    /\ http[k].path = PathOf(ChangeRecord(call.plan[http[k].change]))

\* the Create of the apex NS record of a listed zone was sent as POST and
\* answered
C24_Witness ==
    /\ ApplyOfListedZone
    /\ \E k \in Exchanges :
          /\ http[k].change > 0
          /\ call.plan[http[k].change] = Create(Rec(<<>>, "NS", call.zone))
          /\ http[k].method = "POST" /\ http[k].raised = ""
          /\ http[k].path = PathOf(Rec(<<>>, "NS", call.zone))

\* the step issues a request: the log grows by one exchange
Sends == Len(http') = Len(http) + 1

\* one step of the adapter as C25 allows it
C25_Step ==
    /\ _zones # None =>
          \/ _zones' = _zones
          \/ /\ call.op = "apply" /\ pc = "create_zone"
             /\ call.zone \notin Range(_zones)
             /\ _zones' = Append(_zones, call.zone)
             /\ Sends
             /\ IsZoneCreate(http'[Len(http')]) /\ http'[Len(http')].raised = ""
    /\ (Sends /\ _zones # None) => ~IsZonesGet(http'[Len(http')])
    /\ (Sends /\ IsZoneCreate(http'[Len(http')])) =>
          /\ _zones # None /\ call.zone \notin Range(_zones)
          /\ http'[Len(http')].raised = "" => call.zone \in Range(_zones')

\* C25: once the zone list is cached, no step clears it, replaces it or sends
\* GET /v3/zones; the only change is an apply appending the name of the zone
\* whose creation request has just succeeded. A creation request is sent only
\* for a name the list does not hold, so the creation of a zone succeeds at
\* most once: the names created since the last listing are on the list and
\* none of them twice.
C25_ZoneListOnlyGrowsByCreation ==
    /\ [](_zones # None =>
            /\ \A i \in 1..Len(created) : created[i] \in Range(_zones)
            /\ \A i, j \in 1..Len(created) : created[i] = created[j] => i = j
            /\ Cardinality({k \in Exchanges :
                              IsZoneCreate(http[k]) /\ http[k].raised = ""}) <= 1)
    /\ [][C25_Step]_vars

\* after an apply created the zone, a later apply for it wrote to the zone
\* without another creation request and without a zone listing
C25_Witness ==
    /\ call.op = "apply" /\ pc = "done" /\ ret.exc = ""
    /\ call.zones0 # None /\ call.zone \in Range(call.zones0)
    /\ call.zone \in Range(created)
    /\ \E k \in Exchanges : IsRRSetWrite(http[k])
    /\ \A k \in Exchanges : ~IsZoneCreate(http[k]) /\ ~IsZonesGet(http[k])
    /\ _zones = call.zones0

\* the positions in the snapshot of the entries that match the record of the
\* Delete at position i of the changes
MatchesOf(i) ==
    {k \in 1..Len(frame.lookup) : Matches(frame.lookup[k], frame.changes[i].existing)}

\* the DELETE requests of the Delete at position i
DeletesOf(i) == {k \in Exchanges : http[k].change = i /\ http[k].method = "DELETE"}

\* the Delete at position i went through: the loop of _apply is past it
DeleteDone(i) == LookedUp(i) /\ frame.idx > i

\* C26: a Delete whose record matches an entry of the snapshot issues exactly
\* one DELETE request, at the rrset path of the record, however many entries
\* of the snapshot have that owner name and type.
C26_ExactlyOneDelete ==
    \A i \in 1..Len(frame.changes) :
        (LookedUp(i) /\ MatchesOf(i) # {}) =>
            /\ Cardinality(DeletesOf(i)) <= 1
            /\ DeleteDone(i) => Cardinality(DeletesOf(i)) = 1
            /\ \A k \in DeletesOf(i) : http[k].path = PathOf(frame.changes[i].existing)

\* what the code does: a Delete that went through has sent one DELETE request
\* for each matching entry of the snapshot, all to the rrset path of the record
C26_OneDeletePerMatch ==
    \A i \in 1..Len(frame.changes) :
        /\ DeleteDone(i) => Cardinality(DeletesOf(i)) = Cardinality(MatchesOf(i))
        /\ LookedUp(i) =>
              /\ Cardinality(DeletesOf(i)) <= Cardinality(MatchesOf(i))
              /\ \A k \in DeletesOf(i) :
                    /\ http[k].path = PathOf(frame.changes[i].existing)
                    /\ http[k].json_response = FALSE

\* a Delete with one matching entry went through with one DELETE request
C26_WitnessOne ==
    /\ DeleteDone(1) /\ pc = "done" /\ ret.exc = ""
    /\ Cardinality(MatchesOf(1)) = 1
    /\ Cardinality(DeletesOf(1)) = 1

\* a Delete with two matching entries went through with two DELETE requests
C26_WitnessTwo ==
    /\ DeleteDone(1) /\ pc = "done" /\ ret.exc = ""
    /\ Cardinality(MatchesOf(1)) = 2
    /\ Cardinality(DeletesOf(1)) = 2

\* the running call has ended with the exception of a zone listing request
ZoneListingFailed ==
    /\ pc = "done" /\ ret.exc # "" /\ ret.at = "_request"
    /\ http # <<>> /\ IsZonesGet(http[Len(http)])

\* one step of the adapter as C27 allows it
C27_Step ==
    /\ ZoneListingFailed => pc' = "idle" /\ _zones' = None
    /\ (pc = "idle" /\ _zones = None /\ call'.op \in {"zones", "list_zones"}) =>
          /\ pc' = "zones" /\ http' = <<>>
          /\ frame'.zones = <<>> /\ frame'.cursor = Absent
    /\ (pc = "zones" /\ http = <<>>) =>
          /\ Len(http') = 1 /\ IsZonesGet(http'[1])
          /\ http'[1].cursor = Absent /\ http'[1].limit = ZONE_REQUEST_LIMIT

\* C27: when a zone listing ends with the exception of a request, of the first
\* page or of a later one, the zone list cache is unset as it was, with nothing
\* of the pages received in it; the next access to zones finds it unset and
\* lists again from the first page.
C27_FailedListingCachesNothing ==
    /\ [](ZoneListingFailed => _zones = None /\ call.zones0 = None)
    /\ [](pc = "zones" => _zones = None)
    /\ [][C27_Step]_vars

\* the second page of a listing failed after a first page with a zone on it,
\* and the cache is unset
C27_Witness ==
    /\ ZoneListingFailed
    /\ call.op \in {"zones", "list_zones"}
    /\ Len(http) = 2 /\ http[1].raised = "" /\ http[1].resp.zones # <<>>
    /\ ret.exc = "HTTPError"
    /\ frame.zones # <<>>
    /\ _zones = None

\* the position in the log after which the entry of the zone of the running
\* apply was put into self._zone_records: after the last page of the lookup of
\* a Delete, after the zone creation request (the placeholder), 0 for an entry
\* that was there when the apply began
EntryTime ==
    IF RRSetGets # {} THEN CHOOSE k \in RRSetGets : \A j \in RRSetGets : j <= k
    ELSE IF \E k \in Exchanges : IsZoneCreate(http[k])
    THEN CHOOSE k \in Exchanges : IsZoneCreate(http[k])
    ELSE 0

\* the write requests the running apply sent after the entry was cached
WritesSinceEntry == {k \in Exchanges : k > EntryTime /\ IsRRSetWrite(http[k])}

\* C28: when an apply is over, however it ended, self._zone_records holds no
\* entry for its zone that was cached before a write request of the apply: the
\* next zone_records or populate for the zone asks the vendor.
C28_NoEntryPredatesWrite ==
    (call.op = "apply" /\ pc = "done" /\ call.zone \in DOMAIN _zone_records) =>
        WritesSinceEntry = {}

\* what the code does: an apply that ended with an exception has left
\* self._zone_records as the last step before the exception had it, the
\* placeholder of a created zone or the list of a lookup included; only an
\* apply that went through all its changes removes the entry
C28_EntryDroppedOnlyOnSuccess ==
    (call.op = "apply" /\ pc = "done") =>
        /\ ret.exc = "" => call.zone \notin DOMAIN _zone_records
        /\ (ret.exc # "" /\ call.records0 # <<>>) =>
              (call.zone \in DOMAIN _zone_records
                  /\ _zone_records[call.zone] = call.records0[1])
        /\ (ret.exc # "" /\ \E k \in Exchanges : IsZoneCreate(http[k]) /\ http[k].raised = "") =>
              (call.zone \in DOMAIN _zone_records /\ _zone_records[call.zone] = <<>>)

\* an apply created the zone, wrote one rrset and failed at the next: the
\* placeholder is still cached
C28_WitnessAbort ==
    /\ call.op = "apply" /\ pc = "done" /\ ret.exc = "HTTPError"
    /\ Len(http) = 3
    /\ IsZoneCreate(http[1]) /\ http[1].raised = ""
    /\ IsRRSetWrite(http[2]) /\ http[2].raised = ""
    /\ IsRRSetWrite(http[3])
    /\ _zone_records[call.zone] = <<>>

\* a zone_records call after such an apply: it returns the placeholder of the
\* created zone, the empty list, without a request
C28_WitnessStaleRead ==
    /\ call.op = "zone_records" /\ pc = "done" /\ http = <<>>
    /\ call.zone \in Range(created)
    /\ call.zone \notin DOMAIN fetched
    /\ call.records0 = << <<>> >>
    /\ ret = Returned(<<>>)

\* the snapshot holds an rrset with an rrtype label outside the lookup table
\* (the label of SOA is outside it too, and is skipped by name)
UnknownLabels ==
    {k \in 1..Len(frame.lookup) :
        /\ frame.lookup[k].rrtype # "SOA (6)"
        /\ frame.lookup[k].rrtype \notin DOMAIN RECORDS_TO_TYPE}

\* C29: a Delete whose snapshot holds an rrset with an unknown rrtype label,
\* of whatever owner name, does not raise in _apply_Delete, and every DELETE
\* request it sends is for an entry that matches the record.
C29_UnknownLabelNeverFailsDelete ==
    \A i \in 1..Len(frame.changes) :
        (LookedUp(i) /\ UnknownLabels # {}) =>
            /\ ~(frame.idx = i /\ pc = "done" /\ ret.at = "_apply_Delete")
            /\ Cardinality(DeletesOf(i)) <= Cardinality(MatchesOf(i))

\* what the code does: _apply_Delete raises exactly at an entry with the owner
\* name of the record and an unknown label, with KeyError; entries with an
\* unknown label and another owner name are passed over
C29_KeyErrorAtUnknownLabelOfOwner ==
    /\ (call.op = "apply" /\ pc = "done" /\ ret.at = "_apply_Delete") =>
          /\ ret.exc = "KeyError"
          /\ frame.scan \in UnknownLabels
          /\ frame.lookup[frame.scan].ownerName = Fqdn(frame.changes[frame.idx].existing)
    /\ \A i \in 1..Len(frame.changes) :
          (DeleteDone(i) \/ (LookedUp(i) /\ frame.idx = i /\ pc = "delete")) =>
              \A k \in UnknownLabels :
                  (frame.idx > i \/ k < frame.scan) =>
                      frame.lookup[k].ownerName # Fqdn(frame.changes[i].existing)

\* a Delete of the apex NS record went through with one DELETE request though
\* the snapshot holds an HINFO rrset of another owner
C29_WitnessOtherOwner ==
    /\ DeleteDone(1) /\ pc = "done" /\ ret.exc = ""
    /\ frame.changes[1].existing = Rec(<<>>, "NS", call.zone)
    /\ UnknownLabels # {}
    /\ Cardinality(DeletesOf(1)) = 1

\* a Delete of the A record of www ended with KeyError at the HINFO rrset of
\* www, which the snapshot lists before the A rrset: no DELETE was sent
C29_WitnessKeyError ==
    /\ call.op = "apply" /\ pc = "done" /\ ret = Raised("KeyError", "_apply_Delete")
    /\ frame.changes[frame.idx].existing = Rec(<<"www">>, "A", call.zone)
    /\ DeletesOf(frame.idx) = {}

\* the zone creation request of the running apply has failed
ZoneCreationFailed ==
    /\ call.op = "apply" /\ pc = "done"
    /\ http # <<>> /\ IsZoneCreate(http[Len(http)]) /\ http[Len(http)].raised # ""

\* one step of the adapter as C30 allows it
C30_Step ==
    /\ ZoneCreationFailed =>
          pc' = "idle" /\ _zones' = _zones /\ _zone_records' = _zone_records
    /\ (pc = "idle" /\ _zones # None /\ call'.op = "apply"
            /\ call'.zone \notin Range(_zones)) =>
          pc' = "create_zone" /\ http' = <<>>
    /\ pc = "create_zone" =>
          Sends /\ IsZoneCreate(http'[Len(http')]) /\ http'[Len(http')].method = "POST"

\* C30: when the zone creation request of an apply fails, the apply ends with
\* the exception of that request; the zone list is the list the apply read,
\* without the name; self._zone_records has no entry for the zone; no change
\* has been rewritten and no rrset request sent. The zone being still off the
\* list, the next apply for it goes to the zone creation request again.
C30_FailedCreationChangesNothing ==
    /\ [](ZoneCreationFailed =>
            /\ ret = Raised(http[Len(http)].raised, "_request")
            /\ _zones = ZonesFirstSeen
            /\ call.zone \notin Range(_zones)
            /\ call.zone \notin Range(created)
            /\ call.records0 = <<>> /\ call.zone \notin DOMAIN _zone_records
            /\ frame.changes = <<>> /\ frame.idx = 0
            /\ \A k \in Exchanges : ~IsRRSetWrite(http[k]) /\ ~IsRRSetsGet(http[k]))
    /\ [][C30_Step]_vars

\* an apply with two changes found the zone off the cached list, and its zone
\* creation request failed: nothing else was sent, nothing cached
C30_Witness ==
    /\ ZoneCreationFailed
    /\ call.zones0 # None /\ Len(call.plan) = 2
    /\ Len(http) = 1 /\ ret.exc = "HTTPError"
    /\ _zones = call.zones0 /\ _zone_records = EmptyDict

\* the exchanges of the running call with GET /v3/zones, and with GET .../rrsets
ZonePageRequests == {k \in Exchanges : IsZonesGet(http[k])}
RRSetPageRequests == {k \in Exchanges : IsRRSetsGet(http[k])}

\* a response that ends the zone listing: a page without a next token, the
\* no-data response, or a failure that _request raises
EndsZoneListing(e) == e.raised # "" \/ e.resp.cursorInfo.next = Absent

\* a page of rrsets that the loop takes for a page before the last
NotLastPage(e) ==
    /\ e.raised = ""
    /\ e.resp.resultInfo.offset + e.resp.resultInfo.returnedCount
          < e.resp.resultInfo.totalCount

\* the vendor of the running call so far: every page of rrsets reports the
\* totalCount of the first one and the offset of its request, and every page
\* before the last a returnedCount of at least 1
WellBehaved ==
    \A k \in RRSetPageRequests :
        http[k].raised = "" =>
            /\ \A j \in RRSetPageRequests :
                  http[j].raised = "" =>
                      http[j].resp.resultInfo.totalCount = http[k].resp.resultInfo.totalCount
            /\ http[k].resp.resultInfo.offset = http[k].offset
            /\ NotLastPage(http[k]) => http[k].resp.resultInfo.returnedCount >= 1

\* the number of rrsets the pages of the running call say the zone holds
TotalCount ==
    IF \E k \in RRSetPageRequests : http[k].raised = ""
    THEN http[CHOOSE k \in RRSetPageRequests : http[k].raised = ""].resp.resultInfo.totalCount
    ELSE 0

\* C31: both pagination loops terminate against a well-behaved vendor. The
\* zone listing sends no request after a page without a next token, a no-data
\* response or a failure, and it ends; the request of a page of rrsets comes
\* after pages before the last only; while every page of rrsets reports the
\* same totalCount, the offset of its request and, before the last page, a
\* returnedCount of at least 1, the offsets requested grow strictly, zone_records
\* sends at most totalCount requests (one when totalCount is 0), and it ends.
C31_PaginationTerminates ==
    /\ [](/\ \A i, j \in ZonePageRequests : i < j => ~EndsZoneListing(http[i])
          /\ \A i, j \in RRSetPageRequests : i < j => NotLastPage(http[i])
          /\ pc = "zones" => \A k \in ZonePageRequests : ~EndsZoneListing(http[k])
          /\ pc = "zone_records" => \A k \in RRSetPageRequests : NotLastPage(http[k])
          /\ WellBehaved =>
                /\ \A i, j \in RRSetPageRequests : i < j => http[i].offset < http[j].offset
                /\ Cardinality(RRSetPageRequests) <= IF TotalCount = 0 THEN 1 ELSE TotalCount)
    /\ (pc = "zones") ~> (pc # "zones")
    /\ (pc = "zone_records") ~> (pc # "zone_records" \/ ~WellBehaved)

\* zone_records listed the zones in two pages, then the rrsets of the zone in
\* as many pages as the zone has rrsets, from a well-behaved vendor, and returned
C31_Witness ==
    /\ pc = "done" /\ call.op = "zone_records" /\ ret.exc = ""
    /\ Cardinality(ZonePageRequests) = MaxZonePages
    /\ Cardinality(RRSetPageRequests) = MaxRRs
    /\ WellBehaved /\ TotalCount = MaxRRs
    /\ Len(ret.value) = MaxRRs

\* a zone listing that ended at the no-data response
C31_WitnessNoData ==
    /\ pc = "done" /\ call.op \in {"zones", "list_zones"} /\ ret.exc = ""
    /\ http[Len(http)].raised = "UltraNoZonesExistException"
    /\ ret.value = <<>>

\* a vendor that sends empty pages while rrsets are left: the same request over
\* and over, for as long as the vendor answers
C31_WitnessEmptyPages ==
    /\ pc = "zone_records"
    /\ Cardinality(RRSetPageRequests) = MaxRRSetRequests
    /\ \A k \in RRSetPageRequests :
          /\ http[k].offset = 0
          /\ http[k].resp.resultInfo = [offset |-> 0, returnedCount |-> 0,
                                        totalCount |-> MaxRRs]

\* a vendor that sends the first rrset under offset 0 whatever is asked for: a
\* request for every offset, past the totalCount, for as long as the vendor answers
C31_WitnessOffsetIgnored ==
    /\ pc = "zone_records"
    /\ Cardinality(RRSetPageRequests) = MaxRRSetRequests
    /\ frame.offset = MaxRRSetRequests /\ Len(vendor) = MaxRRs
    /\ \A k \in RRSetPageRequests :
          http[k].resp.resultInfo = [offset |-> 0, returnedCount |-> 1,
                                     totalCount |-> MaxRRs]

\* a vendor whose totalCount is one above what it sends: empty pages past the
\* last rrset, for as long as the vendor answers
C31_WitnessTotalCountAbove ==
    /\ pc = "zone_records"
    /\ Cardinality(RRSetPageRequests) = MaxRRSetRequests
    /\ Len(vendor) = 1 /\ frame.offset = 1
    /\ \A k \in RRSetPageRequests :
          /\ http[k].resp.resultInfo.offset = http[k].offset
          /\ http[k].resp.resultInfo.totalCount = 2

====
